---- MODULE Spec2Model ----
(***************************************************************************)
(* Model of the UiPath XAML linter (scripts/UiPath-XAML-Lint.ps1): one     *)
(* command-line run, from path resolution to the process exit code.  A     *)
(* document is modelled by what the linter's regular expressions see in    *)
(* its text: declarations, prefixed names, attributes, activities.  Each   *)
(* Test-* rule function is one action; a rule is an operator from the      *)
(* content and the result accumulated so far to the new result.            *)
(***************************************************************************)
EXTENDS Integers, Sequences, FiniteSets, TLC

VARIABLES
    pc,          \* position of the script / of Invoke-XamlValidation
    pathKind,    \* what $Path resolves to: "missing", "file", "dir", "other"
    strict,      \* the -Strict switch
    json,        \* the -Json switch
    regArg,      \* -NamespaceRegistry: "none", "bad" (unloadable), "good"
    nsRegistry,  \* $nsRegistry: NoRegistry or the loaded registry object
    files,       \* the files validated by this run, in enumeration order
    idx,         \* index of the file being validated
    content,     \* $content of the file being validated
    namespaces,  \* $namespaces of the file being validated
    result,      \* $result: the ValidationResult being built, or NoResult
    results,     \* $results (directory mode)
    ran,         \* the rule functions called on the current file, in order
    exitCode,    \* process exit code, Running while the script runs
    output,      \* what the process has written to stdout, in order
    errout,      \* what the process has written to stderr, in order
    tool         \* the validate_workflow call the run belongs to, if any

vars == <<pc, pathKind, strict, json, regArg, nsRegistry, files, idx, content,
          namespaces, result, results, ran, exitCode, output, errout, tool>>

(***************************************************************************)
(* Bounds of the model.                                                    *)
(***************************************************************************)
MaxFiles == 2       \* files of a directory
MaxDecls == 2       \* xmlns declarations varied in a document
MaxIdRefs == 2      \* IdRef attributes per spelling
MaxActs == 2        \* activities of a document
MaxCreds == 2       \* credential-like attributes of a document

Running == 0 - 1

(***************************************************************************)
(* Sequence helpers.                                                       *)
(***************************************************************************)
SeqsUpTo(S, n) == UNION {[1..k -> S] : k \in 0..n}

Range(s) == {s[i] : i \in 1..Len(s)}

Take(s, n) == SubSeq(s, 1, IF Len(s) < n THEN Len(s) ELSE n)

RECURSIVE FilterSeq(_, _)
\* the elements of s that belong to the set S, in order ($x | Where-Object)
FilterSeq(s, S) ==
    IF s = <<>> THEN <<>>
    ELSE IF s[1] \in S THEN <<s[1]>> \o FilterSeq(Tail(s), S)
         ELSE FilterSeq(Tail(s), S)

RECURSIVE UniqueSeq(_)
\* Select-Object -Unique: first occurrences, in order
UniqueSeq(s) ==
    IF s = <<>> THEN <<>>
    ELSE LET r == UniqueSeq(SubSeq(s, 1, Len(s) - 1))
             l == s[Len(s)]
         IN IF l \in Range(r) THEN r ELSE Append(r, l)

(***************************************************************************)
(* Static tables of the script.                                            *)
(***************************************************************************)
RequiredNamespaces == <<"x", "sap2010">>

PrimaryContainers == <<"Sequence", "Flowchart", "StateMachine">>

UiAutomationUri == "clr-namespace:UiPath.UIAutomation.Activities"

\* Test-CommonNamespaceRequirements: pattern => prefix and expected URI
NamespaceRequirements == <<
    [Prefix |-> "sd", Types |-> {"DataTable", "DataRow"}, ElemOnly |-> FALSE,
     ExpectedUri |-> "clr-namespace:System.Data;assembly=System.Data.Common"],
    [Prefix |-> "s", Types |-> {"String[]", "Int32", "Boolean", "Double",
                                "DateTime", "TimeSpan", "Decimal"},
     ElemOnly |-> FALSE,
     ExpectedUri |-> "clr-namespace:System;assembly=System.Private.CoreLib"],
    [Prefix |-> "ue", Types |-> {}, ElemOnly |-> TRUE,
     ExpectedUri |-> "clr-namespace:UiPath.Excel;assembly=UiPath.Excel.Activities"],
    [Prefix |-> "ueab", Types |-> {}, ElemOnly |-> TRUE,
     ExpectedUri |-> "clr-namespace:UiPath.Excel.Activities.Business;assembly=UiPath.Excel.Activities"],
    [Prefix |-> "scg", Types |-> {"List", "Dictionary", "IEnumerable", "KeyValuePair"},
     ElemOnly |-> FALSE,
     ExpectedUri |-> "clr-namespace:System.Collections.Generic;assembly=System.Private.CoreLib"],
    [Prefix |-> "sco", Types |-> {"Collection", "ObservableCollection",
                                  "ReadOnlyCollection"},
     ElemOnly |-> FALSE,
     ExpectedUri |-> "clr-namespace:System.Collections.ObjectModel;assembly=System.Private.CoreLib"] >>

(***************************************************************************)
(* ValidationIssue and ValidationResult.                                   *)
(*   items: the list the message is built from (joined in the source);     *)
(*   more:  the message ends with "..." (display truncation).              *)
(***************************************************************************)
NewIssue(rule, severity, items, more) ==
    [Rule |-> rule, Severity |-> severity, Items |-> items, More |-> more]

\* $context of Get-ProjectContext before a project.json is read
\* a path to a project.json: the -ProjectJson argument ("explicit"), the one
\* in the directory dir ("discovered"), or none ($null); directories are
\* numbered upward from the document's own, 0
PathOf(kind, dir) == [kind |-> kind, dir |-> dir]

NullPath == PathOf("null", 0)

UnknownContext == [language |-> "Unknown", projectPath |-> NullPath]

\* the empty hashtable the constructor puts in ProjectContext
EmptyContext == [language |-> "", projectPath |-> PathOf("absent", 0)]

\* the ValidationResult constructor: no issue, empty compliance, IsValid = $false
NewResult == [Returned |-> TRUE, IsValid |-> FALSE, Issues |-> <<>>,
              HRCompliance |-> <<>>, ProjectContext |-> EmptyContext]

\* $null where a ValidationResult is expected (Invoke-XamlValidation did not return)
NoResult == [Returned |-> FALSE, IsValid |-> FALSE, Issues |-> <<>>,
             HRCompliance |-> <<>>, ProjectContext |-> EmptyContext]

\* $Result.Issues.Add($issue)
AddIssue(res, issue) == [res EXCEPT !.Issues = Append(@, issue)]

\* $Result.HRCompliance[$key] = $status ; the map is kept as a sequence of
\* <<key, status>> pairs with one pair per key
SetCompliance(res, key, status) ==
    LET c == res.HRCompliance
        has == \E i \in 1..Len(c) : c[i][1] = key
    IN [res EXCEPT !.HRCompliance =
            IF has THEN [i \in 1..Len(c) |-> IF c[i][1] = key THEN <<key, status>> ELSE c[i]]
            ELSE Append(c, <<key, status>>)]

ComplianceKeys(res) == {res.HRCompliance[i][1] : i \in 1..Len(res.HRCompliance)}

ComplianceOf(res, key) ==
    IF key \in ComplianceKeys(res)
    THEN (CHOOSE p \in Range(res.HRCompliance) : p[1] = key)[2]
    ELSE "absent"

IssuesOfSeverity(res, sevs) ==
    {i \in 1..Len(res.Issues) : res.Issues[i].Severity \in sevs}

IssuesOfRule(res, rule) ==
    {i \in 1..Len(res.Issues) : res.Issues[i].Rule = rule}

(***************************************************************************)
(* Documents.  A document is what the script's regular expressions find in *)
(* its text; wellFormed is the outcome of the [xml] cast.                   *)
(*   decls      xmlns:prefix="uri" declarations, in text order              *)
(*   elems      prefixed element tags <p:Name                               *)
(*   typeAttrs  prefixed names inside Type="..." values                     *)
(*   typeArgs   prefixed names inside x:TypeArguments="..." values          *)
(*   args/vars  <x:Property Name= / <Variable Name= values, in text order   *)
(*   idrefs2010 / idrefsSap / idrefElems  IdRef values by spelling          *)
(*   acts       activities in text order                                    *)
(*   creds      credential-like attributes                                  *)
(*   invokeCodes  number of <ui:InvokeCode ... Code="..."> activities       *)
(*   bodies     element text bodies: the element's tag and whether the text *)
(*              holds a double-encoded entity (&amp;quot; and the like)     *)
(*   doubleEncodingIssues  what the attribute scan of Test-DoubleEncoding   *)
(*              finds                                                       *)
(* The remaining fields are the outcomes of the other scans: what the rule  *)
(* found, as the rule counts it.                                            *)
(***************************************************************************)
QName(p, t) == [p |-> p, t |-> t]

Decl(p, u) == [prefix |-> p, uri |-> u]

StdUri == "urn:std"

OtherUri == "urn:other"

SdUri == NamespaceRequirements[1].ExpectedUri

CleanDecls == <<Decl("x", StdUri), Decl("sap2010", StdUri)>>

\* a document on which every rule passes
CleanDoc ==
    [wellFormed |-> TRUE,
     hasXClass |-> TRUE,
     decls |-> CleanDecls,
     hasMcIgnorable |-> FALSE,
     elems |-> {},
     typeAttrs |-> {},
     typeArgs |-> {},
     containers |-> <<"Sequence">>,
     args |-> <<>>,
     vars |-> <<>>,
     idrefs2010 |-> <<>>,
     idrefsSap |-> <<>>,
     idrefElems |-> <<>>,
     encodingIssues |-> 0,
     doubleEncodingIssues |-> 0,
     bodies |-> <<>>,
     uiActivities |-> <<>>,
     flowchart |-> "none",
     flowStructureIssues |-> 0,
     invokeCodes |-> 0,
     lateBindingIssues |-> 0,
     creds |-> <<>>,
     otherSecrets |-> <<>>,
     typeIssues |-> 0,
     detectedLang |-> "Unknown",
     acts |-> <<>>,
     midActivityIssues |-> 0,
     laterActivityIssues |-> 0,
     pascalFileName |-> TRUE,
     writeLine |-> TRUE]

\* the content the script holds after a failed read: the empty string
EmptyDoc ==
    [CleanDoc EXCEPT !.wellFormed = FALSE, !.hasXClass = FALSE, !.decls = <<>>,
                     !.containers = <<>>, !.writeLine = FALSE]

(***************************************************************************)
(* Get-Namespaces: prefix -> uri, a later declaration replacing an earlier *)
(* one of the same prefix.                                                 *)
(***************************************************************************)
GetNamespaces(doc) ==
    LET d == doc.decls
        P == {d[i].prefix : i \in 1..Len(d)}
        last(p) == CHOOSE i \in 1..Len(d) :
                       /\ d[i].prefix = p
                       /\ \A j \in 1..Len(d) : d[j].prefix = p => j <= i
    IN [p \in P |-> d[last(p)].uri]

ContainsKey(ns, p) == p \in DOMAIN ns

(***************************************************************************)
(* Text predicates shared by the rules ($Content -match ...).              *)
(***************************************************************************)
\* prefixes of the element tags of the text: <p:Name, the <x:Property
\* elements of the arguments and the <ui:...> activities
ElementPrefixes(doc) ==
    {q.p : q \in doc.elems}
    \cup (IF doc.args # <<>> THEN {"x"} ELSE {})
    \cup {doc.acts[i].prefix : i \in {j \in 1..Len(doc.acts) : doc.acts[j].prefix # ""}}

\* 'clr-namespace:UiPath\.UIAutomation\.Activities' occurs in the text
HasUiAutomationImport(doc) ==
    \E i \in 1..Len(doc.decls) : doc.decls[i].uri = UiAutomationUri

\* the text contains "LogMessage", "Log Message" or "WriteLine"
HasLoggingText(doc) ==
    \/ doc.writeLine
    \/ \E i \in 1..Len(doc.acts) : doc.acts[i].kind = "LogMessage"

(***************************************************************************)
(* The namespace registry ($nsRegistry).                                   *)
(***************************************************************************)
NoRegistry == [loaded |-> FALSE, entries |-> <<>>]

\* the object Get-NamespaceRegistry returns for a readable JSON file
LoadedRegistry == [loaded |-> TRUE, entries |-> <<Decl("sd", SdUri)>>]

RegistryHas(reg, p) == \E i \in 1..Len(reg.entries) : reg.entries[i].prefix = p

RegistryUri(reg, p) ==
    (CHOOSE e \in Range(reg.entries) : e.prefix = p).uri

(***************************************************************************)
(* Layer 1 and the hard rules.                                             *)
(***************************************************************************)
\* Test-XmlWellFormed reporting the parse failure as a warning
TestXmlWellFormedWarnsOnly(doc, res) ==
    IF doc.wellFormed
    THEN SetCompliance(res, "Layer1-XML", "PASS")
    ELSE SetCompliance(AddIssue(res, NewIssue("Layer1-XML", "WARNING", <<"XML parsing error">>, FALSE)),
                       "Layer1-XML", "FAIL")

\* Test-XmlWellFormed: the result after the call; the returned boolean is
\* doc.wellFormed
TestXmlWellFormed(doc, res) ==
    IF doc.wellFormed
    THEN SetCompliance(res, "Layer1-XML", "PASS")
    ELSE SetCompliance(AddIssue(res, NewIssue("Layer1-XML", "ERROR", <<"XML parsing error">>, FALSE)),
                       "Layer1-XML", "FAIL")

TestHR0TemplateStructure(doc, res) ==
    IF ~doc.hasXClass
    THEN SetCompliance(AddIssue(res, NewIssue("HR-0", "WARNING", <<"Missing x:Class">>, FALSE)),
                       "HR-0", "WARN")
    ELSE SetCompliance(res, "HR-0", "PASS")

\* MissingRequired stopping at the first missing prefix
MissingRequiredFirstOnly(ns) ==
    Take(FilterSeq(RequiredNamespaces, {p \in Range(RequiredNamespaces) : ~ContainsKey(ns, p)}), 1)

\* the foreach over $Script:RequiredNamespaces: the missing ones, in table order
MissingRequired(ns) ==
    FilterSeq(RequiredNamespaces, {p \in Range(RequiredNamespaces) : ~ContainsKey(ns, p)})

\* the registry comparison of Test-HR2-RootInvariants
MismatchedNs(ns, reg) ==
    {p \in DOMAIN ns : p # "" /\ RegistryHas(reg, p) /\ RegistryUri(reg, p) # ns[p]}

\* prefixes in the order Sort-Object gives them
PrefixOrder == <<"", "mc", "s", "sap2010", "scg", "sco", "sd", "ue", "ueab", "ui", "uix", "x">>

SortedPrefixes(S) == FilterSeq(PrefixOrder, S)

TestHR2RootInvariants(doc, ns, res, reg) ==
    LET missingNs == MissingRequired(ns)
        r1 == IF Len(missingNs) > 0
              THEN SetCompliance(AddIssue(res, NewIssue("HR-2", "ERROR", missingNs, FALSE)),
                                 "HR-2", "FAIL")
              ELSE SetCompliance(res, "HR-2", "PASS")
        r2 == IF reg.loaded /\ MismatchedNs(ns, reg) # {}
              THEN AddIssue(r1, NewIssue("Namespace-Registry", "WARNING",
                                         SortedPrefixes(MismatchedNs(ns, reg)), FALSE))
              ELSE r1
    IN IF ~doc.hasMcIgnorable /\ ContainsKey(ns, "mc")
       THEN AddIssue(r2, NewIssue("HR-2", "INFO", <<"mc:Ignorable attribute not found">>, FALSE))
       ELSE r2

\* $usedPrefixes of Test-NamespacePrefixUsage: element tags (except xml),
\* Type="..." values and x:TypeArguments="..." values
UsedPrefixes(doc) ==
    (ElementPrefixes(doc) \ {"xml"})
    \cup {q.p : q \in doc.typeAttrs}
    \cup {q.p : q \in doc.typeArgs}

\* MissingPrefixes without the comparison against the declared prefixes
MissingPrefixesAllUsed(doc, ns) == UsedPrefixes(doc)

MissingPrefixes(doc, ns) == {p \in UsedPrefixes(doc) : ~ContainsKey(ns, p)}

RECURSIVE AddIssuePerItem(_, _, _, _)
\* one issue for every item of a list
AddIssuePerItem(res, rule, severity, items) ==
    IF items = <<>> THEN res
    ELSE AddIssuePerItem(AddIssue(res, NewIssue(rule, severity, <<Head(items)>>, FALSE)),
                         rule, severity, Tail(items))

\* TestNamespacePrefixUsage emitting one issue per undeclared prefix
TestNamespacePrefixUsagePerPrefix(doc, ns, res) ==
    IF MissingPrefixes(doc, ns) # {}
    THEN SetCompliance(AddIssuePerItem(res, "HR-Namespace-Usage", "ERROR",
                                       SortedPrefixes(MissingPrefixes(doc, ns))),
                       "HR-Namespace-Usage", "FAIL")
    ELSE SetCompliance(res, "HR-Namespace-Usage", "PASS")

TestNamespacePrefixUsage(doc, ns, res) ==
    IF MissingPrefixes(doc, ns) # {}
    THEN SetCompliance(AddIssue(res, NewIssue("HR-Namespace-Usage", "ERROR",
                                              SortedPrefixes(MissingPrefixes(doc, ns)), FALSE)),
                       "HR-Namespace-Usage", "FAIL")
    ELSE SetCompliance(res, "HR-Namespace-Usage", "PASS")

\* $containersFound: one entry per match, grouped by container kind in the
\* order of $Script:PrimaryContainers
ContainersFound(doc) ==
    FilterSeq(doc.containers, {PrimaryContainers[1]})
    \o FilterSeq(doc.containers, {PrimaryContainers[2]})
    \o FilterSeq(doc.containers, {PrimaryContainers[3]})

\* TestHR3PrimaryContainer failing a document with more than one container
TestHR3MultipleFails(doc, res) ==
    LET found == ContainersFound(doc)
    IN IF Len(found) = 0
       THEN SetCompliance(AddIssue(res, NewIssue("HR-3", "ERROR", <<"No primary container found">>, FALSE)),
                          "HR-3", "FAIL")
       ELSE IF Len(found) > 1
       THEN SetCompliance(AddIssue(res, NewIssue("HR-3", "ERROR", found, FALSE)), "HR-3", "FAIL")
       ELSE SetCompliance(res, "HR-3", "PASS")

TestHR3PrimaryContainer(doc, res) ==
    LET found == ContainersFound(doc)
    IN IF Len(found) = 0
       THEN SetCompliance(AddIssue(res, NewIssue("HR-3", "ERROR", <<"No primary container found">>, FALSE)),
                          "HR-3", "FAIL")
       ELSE IF Len(found) > 1
       THEN SetCompliance(AddIssue(res, NewIssue("HR-3", "INFO", found, FALSE)), "HR-3", "PASS")
       ELSE SetCompliance(res, "HR-3", "PASS")

HR4DisplayLimit == 5

\* an argument or variable name: its directional prefix ("" when it has
\* none) and the rest of the name
Name(dir, base) == [dir |-> dir, base |-> base]

HasDirection(n) == n.dir \in {"in_", "out_", "io_"}

\* what -contains compares of a name: the operator ignores case, StartsWith
\* (HasDirection) does not
FoldName(n) == [n EXCEPT !.dir = IF @ = "In_" THEN "in_" ELSE @]

\* TestHR4ArgumentsVariables comparing the names with regard to case
TestHR4ArgumentsVariablesExactCase(doc, res) ==
    LET invalidArgs == FilterSeq(doc.args, {n \in Range(doc.args) : ~HasDirection(n)})
        r1 == IF Len(invalidArgs) > 0
              THEN AddIssue(res, NewIssue("HR-4", "WARNING", Take(invalidArgs, HR4DisplayLimit),
                                          Len(invalidArgs) > HR4DisplayLimit))
              ELSE res
        shadowed == FilterSeq(doc.vars, Range(doc.args))
    IN IF Len(shadowed) > 0
       THEN SetCompliance(AddIssue(r1, NewIssue("HR-4", "ERROR", shadowed, FALSE)), "HR-4", "FAIL")
       ELSE SetCompliance(r1, "HR-4", "PASS")

TestHR4ArgumentsVariables(doc, res) ==
    LET invalidArgs == FilterSeq(doc.args, {n \in Range(doc.args) : ~HasDirection(n)})
        r1 == IF Len(invalidArgs) > 0
              THEN AddIssue(res, NewIssue("HR-4", "WARNING", Take(invalidArgs, HR4DisplayLimit),
                                          Len(invalidArgs) > HR4DisplayLimit))
              ELSE res
        shadowed == FilterSeq(doc.vars, {v \in Range(doc.vars) :
                                            \E a \in Range(doc.args) : FoldName(a) = FoldName(v)})
    IN IF Len(shadowed) > 0
       THEN SetCompliance(AddIssue(r1, NewIssue("HR-4", "ERROR", shadowed, FALSE)), "HR-4", "FAIL")
       ELSE SetCompliance(r1, "HR-4", "PASS")

(***************************************************************************)
(* IdRef rules.  An IdRef value is a string, kept as a sequence of text    *)
(* pieces so that PowerShell's string concatenation can be computed.       *)
(***************************************************************************)
RECURSIVE JoinWithSpace(_)
\* an array converted to a string: its elements joined by " "
JoinWithSpace(vals) ==
    IF Len(vals) = 0 THEN <<>>
    ELSE IF Len(vals) = 1 THEN vals[1]
    ELSE vals[1] \o <<" ">> \o JoinWithSpace(Tail(vals))

\* $idrefs after the two assignments of Test-HR5-IdRefUniqueness.  A pipeline
\* with one output yields that string, not an array, and "+=" on a string
\* concatenates: with exactly one sap2010-spelled IdRef the sap-spelled values
\* are appended to its text.
CollectIdRefs(doc) ==
    IF Len(doc.idrefs2010) = 1 /\ Len(doc.idrefsSap) > 0
    THEN << doc.idrefs2010[1] \o JoinWithSpace(doc.idrefsSap) >>
    ELSE doc.idrefs2010 \o doc.idrefsSap

\* $duplicates: every value met again after its first occurrence
Duplicates(idrefs) ==
    LET again == {i \in 1..Len(idrefs) : \E j \in 1..(i - 1) : idrefs[j] = idrefs[i]}
    IN [k \in 1..Cardinality(again) |->
           idrefs[CHOOSE i \in again : Cardinality({j \in again : j < i}) = k - 1]]

HR5DisplayLimit == 5

TestHR5IdRefUniqueness(doc, res) ==
    LET idrefs == CollectIdRefs(doc)
        uniqueDupes == UniqueSeq(Duplicates(idrefs))
    IN IF Len(idrefs) = 0
       THEN SetCompliance(res, "HR-5", "N/A")
       ELSE IF Len(uniqueDupes) > 0
       THEN SetCompliance(AddIssue(res, NewIssue("HR-5", "ERROR", Take(uniqueDupes, HR5DisplayLimit),
                                                 Len(uniqueDupes) > HR5DisplayLimit)),
                          "HR-5", "FAIL")
       ELSE SetCompliance(res, "HR-5", "PASS")

HR503DisplayLimit == 3

\* the key under which the hashtable $attrValues = @{} files an IdRef value:
\* the keys of a hashtable literal are compared without regard to case
FoldCase(v) == [i \in 1..Len(v) |-> IF v[i] = "ABC" THEN "abc" ELSE v[i]]

\* TestHR503IdRefDualDeclaration recording its status under the key of HR-5
TestHR503UnderHR5Key(doc, res) ==
    LET attrValues == {FoldCase(v) : v \in Range(doc.idrefs2010)}
        dual == FilterSeq(doc.idrefElems, {e \in Range(doc.idrefElems) : FoldCase(e) \in attrValues})
    IN IF Len(doc.idrefElems) > 0 /\ Len(dual) = 0
       THEN SetCompliance(AddIssue(res, NewIssue("HR-503", "WARNING", <<"IdRef uses element syntax">>, FALSE)),
                          "HR-5", "WARN")
       ELSE IF Len(dual) > 0
       THEN SetCompliance(AddIssue(res, NewIssue("HR-503", "ERROR", Take(dual, HR503DisplayLimit),
                                                 Len(dual) > HR503DisplayLimit)),
                          "HR-5", "FAIL")
       ELSE SetCompliance(res, "HR-5", "PASS")

TestHR503IdRefDualDeclaration(doc, res) ==
    LET attrValues == {FoldCase(v) : v \in Range(doc.idrefs2010)}
        dual == FilterSeq(doc.idrefElems, {e \in Range(doc.idrefElems) : FoldCase(e) \in attrValues})
    IN IF Len(doc.idrefElems) > 0 /\ Len(dual) = 0
       THEN SetCompliance(AddIssue(res, NewIssue("HR-503", "WARNING", <<"IdRef uses element syntax">>, FALSE)),
                          "HR-503", "WARN")
       ELSE IF Len(dual) > 0
       THEN SetCompliance(AddIssue(res, NewIssue("HR-503", "ERROR", Take(dual, HR503DisplayLimit),
                                                 Len(dual) > HR503DisplayLimit)),
                          "HR-503", "FAIL")
       ELSE SetCompliance(res, "HR-503", "PASS")

(***************************************************************************)
(* Encoding, UI automation, flowchart viewstate, InvokeCode.               *)
(***************************************************************************)
TestHR6ExpressionEncoding(doc, res) ==
    IF doc.encodingIssues > 0
    THEN SetCompliance(AddIssue(res, NewIssue("HR-6", "WARNING", <<doc.encodingIssues>>, FALSE)),
                       "HR-6", "WARN")
    ELSE SetCompliance(res, "HR-6", "PASS")

DoubleEncodingDisplayLimit == 3

\* $selectorElementNames
SelectorElementNames == {"Selector", "FullSelectorArgument", "FuzzySelectorArgument"}

\* an element with a text body: the tag name and whether the text holds a
\* double-encoded entity
Body(tag, entity) == [tag |-> tag, entity |-> entity]

\* the text around a body, in pieces: < tag > text </
BodyText(b) == <<"<", b.tag, ">", IF b.entity THEN "&amp;quot;" ELSE "text", "</">>

\* the targeted scan: bodies of InArgument, OutArgument, InOutArgument,
\* Assign.Value, Assign.To and ui:LogMessage elements whose tag does not hold
\* a selector name, with a double-encoded entity in the text
TargetedBodyIssues(doc) ==
    {i \in 1..Len(doc.bodies) :
        /\ doc.bodies[i].tag \in {"InArgument", "OutArgument", "InOutArgument",
                                  "Assign.Value", "Assign.To", "ui:LogMessage"}
        /\ doc.bodies[i].tag \notin SelectorElementNames
        /\ doc.bodies[i].entity}

\* the position of a match of '>([^<]{4,})</' in the text around the body:
\* the match starts at the > that closes the opening tag
GenericBodyIndex == 3

\* $precedingContext: the text before the match, the > not included
PrecedingContext(b) == SubSeq(BodyText(b), 1, GenericBodyIndex - 1)

\* $isSelectorBody: the context ends with a tag that holds a selector name,
\* closed by >
IsSelectorBody(context) ==
    /\ Len(context) >= 2
    /\ context[Len(context)] = ">"
    /\ context[Len(context) - 1] \in SelectorElementNames

\* the fallback scan over every element body
GenericBodyIssues(doc) ==
    {i \in 1..Len(doc.bodies) :
        /\ ~IsSelectorBody(PrecedingContext(doc.bodies[i]))
        /\ doc.bodies[i].entity}

\* $doubleEncodingIssues.Count: the attribute scan, the targeted scan and
\* what the fallback scan adds to them
DoubleEncodingCount(doc) ==
    doc.doubleEncodingIssues
    + Cardinality(TargetedBodyIssues(doc))
    + Cardinality(GenericBodyIssues(doc) \ TargetedBodyIssues(doc))

TestDoubleEncoding(doc, res) ==
    LET count == DoubleEncodingCount(doc)
    IN IF count > 0
       THEN SetCompliance(AddIssue(res, NewIssue("HR-Double-Encoding", "ERROR", <<count>>,
                                                 count > DoubleEncodingDisplayLimit)),
                          "HR-Double-Encoding", "FAIL")
       ELSE SetCompliance(res, "HR-Double-Encoding", "PASS")

HR7DisplayLimit == 5

\* $uiActivitiesFound: the tag and selector patterns that matched, then the
\* namespace import
UiActivitiesFound(doc) ==
    doc.uiActivities
    \o (IF HasUiAutomationImport(doc)
        THEN <<"UiPath.UIAutomation.Activities namespace import">> ELSE <<>>)

TestHR7NoUIAutomation(doc, res) ==
    LET found == UiActivitiesFound(doc)
    IN IF Len(found) > 0
       THEN SetCompliance(AddIssue(res, NewIssue("HR-7", "ERROR", Take(UniqueSeq(found), HR7DisplayLimit), FALSE)),
                          "HR-7", "FAIL")
       ELSE SetCompliance(res, "HR-7", "PASS")

\* doc.flowchart: "none" (no <Flowchart), "empty" (no FlowStep/FlowDecision),
\* "positioned" (nodes, ShapeLocation and ShapeSize), "unpositioned" (nodes,
\* a viewstate marker missing)
TestHR9FlowchartViewState(doc, res) ==
    IF doc.flowchart = "none" THEN SetCompliance(res, "HR-9", "N/A")
    ELSE IF doc.flowchart = "unpositioned"
    THEN SetCompliance(AddIssue(res, NewIssue("HR-9", "WARNING", <<"missing ViewState positioning">>, FALSE)),
                       "HR-9", "WARN")
    ELSE SetCompliance(res, "HR-9", "PASS")

HR701DisplayLimit == 2

TestHR701InvokeCodeLateBinding(doc, res) ==
    IF doc.lateBindingIssues > 0
    THEN SetCompliance(AddIssue(res, NewIssue("HR-701", "ERROR", <<doc.lateBindingIssues>>,
                                              doc.lateBindingIssues > HR701DisplayLimit)),
                       "HR-701", "FAIL")
    ELSE SetCompliance(res, "HR-701", "PASS")

(***************************************************************************)
(* Secrets detection.  A credential-like attribute is                      *)
(*   afterLetter  a letter stands right before the attribute name           *)
(*                (IsPassword=, ClientSecret=)                              *)
(*   name         the attribute name, lower-cased (-match ignores case)     *)
(*   value        the quoted value, as a sequence of text pieces            *)
(***************************************************************************)
Cred(afterLetter, name, value) ==
    [afterLetter |-> afterLetter, name |-> name, value |-> value]

\* the text pieces values are made of, with their length in characters and
\* whether they end in [a-zA-Z0-9]
PieceLen(t) ==
    CASE t = "{x:Null}" -> 8
      [] t = "[" -> 1
      [] t = "]" -> 1
      [] t = "False" -> 5
      [] t = "True" -> 4
      [] t = "expr" -> 4
      [] t = "Sup3rSecret" -> 11
      [] t = "eyJhbGciOiJIUzI1NiIsInR5cCI6" -> 28
      [] t = "!" -> 1

AlnumPieces == {"False", "True", "expr", "Sup3rSecret", "eyJhbGciOiJIUzI1NiIsInR5cCI6"}

RECURSIVE ValueLen(_)
ValueLen(v) == IF v = <<>> THEN 0 ELSE PieceLen(v[1]) + ValueLen(Tail(v))

\* $Script:SecretsPatterns, the entries of the shape
\*   (?<![a-zA-Z])name\s*=\s*"(?!exclusions)[^"]{min,}"
\* Trail: the value must end with one more character of [a-zA-Z0-9]
NullOrExpr == {"{x:Null}", "["}

NullExprOrBool == {"{x:Null}", "[", "False", "True"}

AttrPatterns == <<
    [Attr |-> "password", Not |-> NullExprOrBool, Min |-> 1, Trail |-> TRUE,
     Name |-> "Hardcoded password"],
    [Attr |-> "password", Not |-> NullExprOrBool, Min |-> 1, Trail |-> FALSE,
     Name |-> "Hardcoded Password property"],
    [Attr |-> "apikey", Not |-> NullOrExpr, Min |-> 1, Trail |-> FALSE,
     Name |-> "Hardcoded API key"],
    [Attr |-> "apikey", Not |-> NullOrExpr, Min |-> 1, Trail |-> FALSE,
     Name |-> "Hardcoded ApiKey property"],
    [Attr |-> "api_key", Not |-> NullOrExpr, Min |-> 1, Trail |-> FALSE,
     Name |-> "Hardcoded api_key"],
    [Attr |-> "secret", Not |-> NullOrExpr, Min |-> 1, Trail |-> FALSE,
     Name |-> "Hardcoded secret"],
    [Attr |-> "secret", Not |-> NullOrExpr, Min |-> 1, Trail |-> FALSE,
     Name |-> "Hardcoded Secret property"],
    [Attr |-> "token", Not |-> NullOrExpr, Min |-> 20, Trail |-> FALSE,
     Name |-> "Hardcoded token (long string)"],
    [Attr |-> "token", Not |-> NullOrExpr, Min |-> 20, Trail |-> FALSE,
     Name |-> "Hardcoded Token property"],
    [Attr |-> "securestring", Not |-> NullOrExpr, Min |-> 1, Trail |-> FALSE,
     Name |-> "Hardcoded SecureString value" ] >>

\* PatternMatches without the negative lookahead after the opening quote
PatternMatchesNoLookahead(pat, cred) ==
    /\ ~cred.afterLetter
    /\ cred.name = pat.Attr
    /\ cred.value # <<>>
    /\ ValueLen(cred.value) >= pat.Min + (IF pat.Trail THEN 1 ELSE 0)
    /\ pat.Trail => cred.value[Len(cred.value)] \in AlnumPieces

\* the pattern matches the attribute
PatternMatches(pat, cred) ==
    /\ ~cred.afterLetter                                  \* (?<![a-zA-Z])
    /\ cred.name = pat.Attr
    /\ cred.value # <<>>
    /\ cred.value[1] \notin pat.Not                       \* (?!...) after the quote
    /\ ValueLen(cred.value) >= pat.Min + (IF pat.Trail THEN 1 ELSE 0)
    /\ pat.Trail => cred.value[Len(cred.value)] \in AlnumPieces

\* $secretsFound: the names of the matching patterns, in table order; the
\* SecureString pattern is the last entry of the table, after the patterns of
\* other shapes (bearer, basic auth, connection strings, empty asset name)
SecretsFound(doc) ==
    LET hit(k) == \E i \in 1..Len(doc.creds) : PatternMatches(AttrPatterns[k], doc.creds[i])
        names(k) == IF hit(k) THEN <<AttrPatterns[k].Name>> ELSE <<>>
    IN names(1) \o names(2) \o names(3) \o names(4) \o names(5) \o names(6)
       \o names(7) \o names(8) \o names(9) \o doc.otherSecrets \o names(10)

TestSecretsDetection(doc, res) ==
    LET found == SecretsFound(doc)
    IN IF Len(found) > 0
       THEN SetCompliance(AddIssue(res, NewIssue("Secrets", "ERROR", UniqueSeq(found), FALSE)),
                          "Secrets", "FAIL")
       ELSE SetCompliance(res, "Secrets", "PASS")

(***************************************************************************)
(* Type system, expression language, flowchart structure.                  *)
(***************************************************************************)
TypeSystemDisplayLimit == 3

TestTypeSystem(doc, res) ==
    IF doc.typeIssues > 0
    THEN SetCompliance(AddIssue(res, NewIssue("TypeSystem", "WARNING", <<doc.typeIssues>>,
                                              doc.typeIssues > TypeSystemDisplayLimit)),
                       "TypeSystem", "WARN")
    ELSE SetCompliance(res, "TypeSystem", "PASS")

\* doc.detectedLang: the side with more indicator matches, "Unknown" on a tie
TestExpressionLanguage(doc, res, expectedLanguage) ==
    IF expectedLanguage = "" \/ expectedLanguage = "Unknown"
    THEN SetCompliance(res, "ExpressionLang", "N/A")
    ELSE IF doc.detectedLang # "Unknown" /\ doc.detectedLang # expectedLanguage
    THEN SetCompliance(AddIssue(res, NewIssue("ExpressionLang", "WARNING",
                                              <<expectedLanguage, doc.detectedLang>>, FALSE)),
                       "ExpressionLang", "WARN")
    ELSE SetCompliance(res, "ExpressionLang", "PASS")

FlowchartDisplayLimit == 3

TestFlowchartStructure(doc, res) ==
    IF doc.flowchart = "none" THEN SetCompliance(res, "FlowchartStructure", "N/A")
    ELSE IF doc.flowStructureIssues > 0
    THEN SetCompliance(AddIssue(res, NewIssue("FlowchartStructure", "WARNING", <<doc.flowStructureIssues>>,
                                              doc.flowStructureIssues > FlowchartDisplayLimit)),
                       "FlowchartStructure", "WARN")
    ELSE SetCompliance(res, "FlowchartStructure", "PASS")

(***************************************************************************)
(* Per-activity checks.  An activity is                                    *)
(*   kind    "Assign" or "LogMessage"                                       *)
(*   prefix  the prefix of its tag ("ui" for <ui:LogMessage, "" for <Assign)*)
(*   name    its DisplayName value                                          *)
(*   attrs   the attribute texts it carries ("Level" for Level=, ...)       *)
(*   len     the number of characters from its "<" to the next activity     *)
(* The attribute texts of an activity lie within its first AttrSpan         *)
(* characters.                                                              *)
(***************************************************************************)
Activity(kind, prefix, name, attrs, len) ==
    [kind |-> kind, prefix |-> prefix, name |-> name, attrs |-> attrs, len |-> len]

AttrSpan == 100

ShortLen == 150

LongLen == 450

AssignWindow == 500

LogMessageWindow == 400

ActivityDisplayLimit == 5

RECURSIVE OffsetOf(_, _)
\* the index of the activity's "<" relative to the first activity
OffsetOf(acts, i) == IF i <= 1 THEN 0 ELSE OffsetOf(acts, i - 1) + acts[i - 1].len

\* Get-NearbyContent from activity i, then -match 'attr=': the text "attr="
\* lies within the window characters that follow the start of activity i
NearbyHas(acts, i, window, attr) ==
    \E j \in i..Len(acts) :
        /\ OffsetOf(acts, j) - OffsetOf(acts, i) + AttrSpan <= window
        /\ attr \in acts[j].attrs

\* the activities the pattern <kind[^>]*DisplayName="..." matches
Matched(acts, kind) ==
    {i \in 1..Len(acts) : acts[i].kind = kind /\ "DisplayName" \in acts[i].attrs}

RECURSIVE AssignIssues(_, _)
AssignIssues(acts, i) ==
    IF i > Len(acts) THEN <<>>
    ELSE (IF i \in Matched(acts, "Assign")
          THEN (IF ~NearbyHas(acts, i, AssignWindow, "To")
                THEN << <<"Assign", acts[i].name, "missing To property">> >> ELSE <<>>)
               \o (IF ~NearbyHas(acts, i, AssignWindow, "Value")
                   THEN << <<"Assign", acts[i].name, "missing Value property">> >> ELSE <<>>)
          ELSE <<>>)
         \o AssignIssues(acts, i + 1)

RECURSIVE LogMessageIssues(_, _)
LogMessageIssues(acts, i) ==
    IF i > Len(acts) THEN <<>>
    ELSE (IF i \in Matched(acts, "LogMessage")
          THEN (IF ~NearbyHas(acts, i, LogMessageWindow, "Level")
                THEN << <<"LogMessage", acts[i].name, "missing Level">> >> ELSE <<>>)
               \o (IF ~NearbyHas(acts, i, LogMessageWindow, "Message")
                   THEN << <<"LogMessage", acts[i].name, "missing Message">> >> ELSE <<>>)
          ELSE <<>>)
         \o LogMessageIssues(acts, i + 1)

\* the issues of the checks whose activities the model does not detail
OtherIssues(n) == [k \in 1..n |-> <<"other", "", "missing property">>]

\* $activityIssues in the order the checks run: Assign; If .. InvokeCode;
\* LogMessage; the checks from HR-601 to FlowDecision
ActivityIssues(doc) ==
    AssignIssues(doc.acts, 1)
    \o OtherIssues(doc.midActivityIssues)
    \o LogMessageIssues(doc.acts, 1)
    \o OtherIssues(doc.laterActivityIssues)

TestActivitySpecific(doc, res) ==
    LET activityIssues == ActivityIssues(doc)
    IN IF Len(activityIssues) > 0
       THEN SetCompliance(AddIssue(res, NewIssue("ActivitySpecific", "WARNING",
                                                 Take(activityIssues, ActivityDisplayLimit),
                                                 Len(activityIssues) > ActivityDisplayLimit)),
                          "ActivitySpecific", "WARN")
       ELSE SetCompliance(res, "ActivitySpecific", "PASS")

(***************************************************************************)
(* Namespace-to-usage cross-check and the standards rules.                 *)
(***************************************************************************)
\* $Content -match $req.Pattern
RequirementMatches(req, doc) ==
    IF req.ElemOnly
    THEN req.Prefix \in ElementPrefixes(doc)
    ELSE \E q \in doc.elems \cup doc.typeAttrs \cup doc.typeArgs :
             q.p = req.Prefix /\ q.t \in req.Types

CommonTypesDisplayLimit == 3

RECURSIVE CommonNamespaceIssues(_, _, _)
CommonNamespaceIssues(doc, ns, k) ==
    IF k > Len(NamespaceRequirements) THEN <<>>
    ELSE LET req == NamespaceRequirements[k]
         IN (IF RequirementMatches(req, doc)
             THEN IF ~ContainsKey(ns, req.Prefix)
                  THEN << <<req.Prefix, "not declared">> >>
                  ELSE IF ns[req.Prefix] # req.ExpectedUri
                  THEN << <<req.Prefix, "URI mismatch">> >>
                  ELSE <<>>
             ELSE <<>>)
            \o CommonNamespaceIssues(doc, ns, k + 1)

TestCommonNamespaceRequirements(doc, ns, res) ==
    LET nsIssues == CommonNamespaceIssues(doc, ns, 1)
    IN IF Len(nsIssues) > 0
       THEN SetCompliance(AddIssue(res, NewIssue("Namespace-Common-Types", "WARNING",
                                                 Take(nsIssues, CommonTypesDisplayLimit),
                                                 Len(nsIssues) > CommonTypesDisplayLimit)),
                          "Namespace-Common-Types", "WARN")
       ELSE SetCompliance(res, "Namespace-Common-Types", "PASS")

\* a one-character name
SingleLetter(n) == n.dir = "" /\ n.base \in {"i", "j"}

TestNamingConventions(doc, res) ==
    LET r1 == IF ~doc.pascalFileName
              THEN AddIssue(res, NewIssue("Standards-Naming", "INFO", <<"filename should be PascalCase">>, FALSE))
              ELSE res
        singleLetterVars == FilterSeq(doc.vars, {n \in Range(doc.vars) : SingleLetter(n)})
    IN IF Len(singleLetterVars) > 0
       THEN AddIssue(r1, NewIssue("Standards-Naming", "WARNING", singleLetterVars, FALSE))
       ELSE r1

\* Test-LoggingPractices recording a compliance entry of its own
TestLoggingPracticesWithKey(doc, res) ==
    IF ~HasLoggingText(doc)
    THEN SetCompliance(AddIssue(res, NewIssue("Standards-Logging", "INFO",
                                              <<"No logging activities found">>, FALSE)),
                       "Standards-Logging", "WARN")
    ELSE SetCompliance(res, "Standards-Logging", "PASS")

TestLoggingPractices(doc, res) ==
    IF ~HasLoggingText(doc)
    THEN AddIssue(res, NewIssue("Standards-Logging", "INFO", <<"No logging activities found">>, FALSE))
    ELSE res

\* "Determine validity" at the end of Invoke-XamlValidation
HasErrors(res) == IssuesOfSeverity(res, {"ERROR"}) # {}

\* DetermineValidity following the -Strict policy of the exit code
DetermineValidityStrict(res) ==
    [res EXCEPT !.IsValid = IssuesOfSeverity(res, IF strict THEN {"ERROR", "WARNING"} ELSE {"ERROR"}) = {}]

DetermineValidity(res) == [res EXCEPT !.IsValid = ~HasErrors(res)]

(***************************************************************************)
(* The documents of the model: CleanDoc with one group of features varied. *)
(***************************************************************************)
\* declarations: the required ones, then up to MaxDecls further ones
BaseDecls == {<<>>, <<Decl("x", StdUri)>>, <<Decl("sap2010", StdUri)>>, CleanDecls}

ExtraDecls == {Decl("mc", StdUri), Decl("sd", SdUri), Decl("sd", OtherUri),
               Decl("uix", UiAutomationUri)}

\* prefixed names in the text, and whether the text holds "mc:Ignorable"
UsageChoices ==
    {[elems |-> {}, typeAttrs |-> {}, typeArgs |-> {}, ign |-> FALSE],
     [elems |-> {}, typeAttrs |-> {}, typeArgs |-> {}, ign |-> TRUE],
     [elems |-> {}, typeAttrs |-> {QName("sd", "DataTable")}, typeArgs |-> {}, ign |-> FALSE],
     [elems |-> {}, typeAttrs |-> {QName("mc", "Choice")}, typeArgs |-> {}, ign |-> FALSE],
     [elems |-> {}, typeAttrs |-> {QName("mc", "Choice")}, typeArgs |-> {QName("sd", "DataRow")}, ign |-> TRUE],
     [elems |-> {}, typeAttrs |-> {QName("x", "String")}, typeArgs |-> {}, ign |-> FALSE],
     [elems |-> {QName("uix", "NApplicationCard")}, typeAttrs |-> {},
      typeArgs |-> {QName("scg", "List"), QName("sd", "DataRow")}, ign |-> FALSE]}

NsDocs ==
    {[CleanDoc EXCEPT !.decls = b \o e, !.elems = u.elems, !.typeAttrs = u.typeAttrs,
                      !.typeArgs = u.typeArgs, !.hasMcIgnorable = u.ign] :
        b \in BaseDecls, e \in SeqsUpTo(ExtraDecls, MaxDecls), u \in UsageChoices}

IdRefValues == {<<"abc">>, <<"def">>}

IdRefDocs ==
    {[CleanDoc EXCEPT !.idrefs2010 = a, !.idrefsSap = b, !.idrefElems = e] :
        a \in SeqsUpTo(IdRefValues, MaxIdRefs), b \in SeqsUpTo(IdRefValues, MaxIdRefs),
        e \in SeqsUpTo(IdRefValues \cup {<<"ABC">>}, 1)}

ActNames == <<"A1", "A2", "A3", "A4">>

ActChoices ==
    ({"LogMessage"} \X {{"DisplayName", "Message"}, {"DisplayName", "Level", "Message"},
                        {"DisplayName", "Level"}, {"Message"}} \X {ShortLen, LongLen})
    \cup ({"Assign"} \X {{"DisplayName", "To", "Value"}, {"DisplayName"}} \X {ShortLen, LongLen})

ActsOf(c) ==
    [i \in 1..Len(c) |->
        Activity(c[i][1], IF c[i][1] = "LogMessage" THEN "ui" ELSE "", ActNames[i], c[i][2], c[i][3])]

UiDecls == CleanDecls \o <<Decl("ui", StdUri)>>

ActDocs ==
    {[CleanDoc EXCEPT !.decls = UiDecls, !.acts = ActsOf(c), !.writeLine = FALSE,
                      !.midActivityIssues = m, !.laterActivityIssues = l] :
        c \in SeqsUpTo(ActChoices, MaxActs), m \in {0}, l \in {0}}
    \cup
    {[CleanDoc EXCEPT !.decls = UiDecls, !.midActivityIssues = m, !.laterActivityIssues = l,
                      !.acts = ActsOf(<< <<"LogMessage", {"DisplayName", "Message"}, LongLen>> >>)] :
        m \in {0, 5}, l \in {0, 1}}

CredChoices ==
    {Cred(FALSE, "password", v) :
        v \in {<<"{x:Null}">>, <<"[", "expr", "]">>, <<"False">>, <<"True">>,
               <<"Sup3rSecret", "!">>, <<"Sup3rSecret">>, <<"!">>}}
    \cup {Cred(TRUE, "password", v) : v \in {<<"False">>, <<"Sup3rSecret", "!">>}}
    \cup {Cred(FALSE, "token", v) :
              v \in {<<"Sup3rSecret">>, <<"eyJhbGciOiJIUzI1NiIsInR5cCI6">>}}

CredDocs == {[CleanDoc EXCEPT !.creds = c] : c \in SeqsUpTo(CredChoices, MaxCreds)}

NameChoices == {Name("in_", "arg"), Name("", "arg"), Name("", "i")}

BodyChoices ==
    {Body(t, e) : t \in SelectorElementNames \cup {"InArgument", "Variable.Default"},
                  e \in BOOLEAN}

MiscDocs ==
    {[CleanDoc EXCEPT !.hasXClass = h, !.pascalFileName = f, !.writeLine = w] :
        h \in BOOLEAN, f \in BOOLEAN, w \in BOOLEAN}
    \cup {[CleanDoc EXCEPT !.containers = c] : c \in SeqsUpTo(Range(PrimaryContainers), 2)}
    \cup {[CleanDoc EXCEPT !.args = a, !.vars = v, !.pascalFileName = f] :
              a \in SeqsUpTo(NameChoices, 1), v \in SeqsUpTo(NameChoices \cup {Name("In_", "arg")}, 1),
              f \in BOOLEAN}
    \cup {[CleanDoc EXCEPT !.encodingIssues = e, !.doubleEncodingIssues = d, !.typeIssues = t] :
              e \in {0, 1}, d \in {0, 1, 4}, t \in {0, 1}}
    \cup {[CleanDoc EXCEPT !.uiActivities = u, !.invokeCodes = ic[1], !.lateBindingIssues = ic[2],
                            !.otherSecrets = o] :
              u \in {<<>>, <<"Click activity">>}, ic \in {<<0, 0>>, <<1, 0>>, <<1, 1>>},
              o \in {<<>>, <<"Hardcoded Bearer token">>}}
    \cup {[CleanDoc EXCEPT !.flowchart = k, !.flowStructureIssues = n, !.containers = <<"Flowchart">>] :
              k \in {"empty", "positioned", "unpositioned"}, n \in {0, 1}}
    \cup {[CleanDoc EXCEPT !.detectedLang = l] : l \in {"VB", "CSharp"}}
    \cup {[CleanDoc EXCEPT !.bodies = b] : b \in SeqsUpTo(BodyChoices, 2)}

\* documents with one, two and more findings of different severities
ReportDocs ==
    {[CleanDoc EXCEPT !.hasXClass = h, !.containers = c, !.pascalFileName = f,
                      !.creds = s] :
        h \in BOOLEAN, c \in {<<>>, <<"Sequence">>}, f \in BOOLEAN,
        s \in {<<>>, <<Cred(FALSE, "password", <<"Sup3rSecret", "!">>)>>}}

MalformedDocs == {[d EXCEPT !.wellFormed = FALSE] : d \in MiscDocs \cup CredDocs}

AllDocs == NsDocs \cup IdRefDocs \cup ActDocs \cup CredDocs \cup MiscDocs \cup MalformedDocs

(***************************************************************************)
(* A file of the run: its document, what reading it does ("ok", "gone":    *)
(* deleted since the path was resolved or enumerated, "unreadable"), and   *)
(* the language Get-ProjectContext infers for it.                          *)
(***************************************************************************)
\* a file: its text, whether it can be read, and the project.json that
\* Get-ProjectContext looks at for it: proj is "none" (no -ProjectJson and no
\* project.json above the file), "missing" (the path does not exist),
\* "unparsable" (ConvertFrom-Json throws) or "found"; lang is the language the
\* project.json gives
\* where a file is: explicit tells of the -ProjectJson argument ("none":
\* not given, "missing": names nothing, "exists"), depth is the number of
\* directories between the document's directory and the root, projectDirs
\* the directories, from the document's (0) to the root (depth), that hold a
\* project.json
Place(explicit, depth, projectDirs) ==
    [explicit |-> explicit, depth |-> depth, projectDirs |-> projectDirs]

FileAt(doc, state, place, proj, lang) ==
    [doc |-> doc, state |-> state, lang |-> lang, proj |-> proj, place |-> place]

\* a file one directory below the root: without project.json, with a
\* -ProjectJson that names nothing, or with a project.json next to it
FileWithProject(doc, state, proj, lang) ==
    FileAt(doc, state,
           IF proj = "none" THEN Place("none", 1, {})
           ELSE IF proj = "missing" THEN Place("missing", 1, {})
           ELSE Place("none", 1, {0}),
           proj, lang)

File(doc, state, lang) ==
    FileWithProject(doc, state, IF lang = "Unknown" THEN "none" ELSE "found", lang)

\* Split-Path $dir -Parent: the directory above, the empty string above the
\* root
NoDir == 0 - 1

ParentOf(place, dir) == IF dir >= place.depth THEN NoDir ELSE dir + 1

RECURSIVE FindProjectJson(_, _, _)
\* the while loop of Get-ProjectContext from directory dir on: the path it
\* yields and the directories it has examined, in order
FindProjectJson(place, dir, examined) ==
    IF dir = NoDir THEN [path |-> NullPath, examined |-> examined]
    ELSE IF dir \in place.projectDirs
    THEN [path |-> PathOf("discovered", dir), examined |-> Append(examined, dir)]
    ELSE LET parent == ParentOf(place, dir)
         IN IF parent = dir THEN [path |-> NullPath, examined |-> Append(examined, dir)]
            ELSE FindProjectJson(place, parent, Append(examined, dir))

\* SearchPath taking up the upward search when the explicit path names nothing
SearchPathFallsBack(place) ==
    IF place.explicit = "exists"
    THEN [path |-> PathOf("explicit", 0), examined |-> <<>>]
    ELSE FindProjectJson(place, 0, <<>>)

\* $searchPath
SearchPath(place) ==
    IF place.explicit # "none"
    THEN [path |-> PathOf("explicit", 0), examined |-> <<>>]
    ELSE FindProjectJson(place, 0, <<>>)

\* Test-Path $searchPath
TestPath(place, path) ==
    IF path.kind = "explicit" THEN place.explicit = "exists"
    ELSE path.kind = "discovered" /\ path.dir \in place.projectDirs

\* Get-ProjectContext: the context stays Unknown unless the search path
\* names a project.json that can be parsed
GetProjectContext(file) ==
    LET searchPath == SearchPath(file.place).path
    IN IF searchPath # NullPath /\ TestPath(file.place, searchPath) /\ file.proj = "found"
       THEN [language |-> file.lang, projectPath |-> searchPath]
       ELSE UnknownContext

MaxDepth == 2

Places ==
    {Place(e, d, S) : e \in {"none", "missing", "exists"},
                      d \in 0..MaxDepth, S \in SUBSET (0..MaxDepth)}

\* files at every place, each project.json on the way giving CSharp
PlacedFiles ==
    {FileAt([CleanDoc EXCEPT !.detectedLang = "VB"], "ok", pl, "found", "CSharp") :
        pl \in {q \in Places : q.projectDirs \subseteq 0..q.depth}}

SingleFiles ==
    {File(d, "ok", "Unknown") : d \in AllDocs}
    \cup {File(d, st, "Unknown") : d \in {CleanDoc}, st \in {"gone", "unreadable"}}
    \cup {File(d, "ok", l) : d \in {[CleanDoc EXCEPT !.detectedLang = k] : k \in {"Unknown", "VB", "CSharp"}},
                             l \in {"VB", "CSharp"}}
    \cup {FileWithProject([CleanDoc EXCEPT !.detectedLang = k], "ok", pr, "Unknown") :
              k \in {"Unknown", "VB"}, pr \in {"missing", "unparsable", "found"}}
    \cup PlacedFiles

\* the documents directories are made of: clean, INFO only, WARNING only,
\* ERROR, not well-formed, deleted during the run
DirFiles ==
    {File(CleanDoc, "ok", "Unknown"),
     File([CleanDoc EXCEPT !.pascalFileName = FALSE], "ok", "Unknown"),
     File([CleanDoc EXCEPT !.hasXClass = FALSE], "ok", "Unknown"),
     File([CleanDoc EXCEPT !.containers = <<>>], "ok", "Unknown"),
     File([CleanDoc EXCEPT !.wellFormed = FALSE], "ok", "Unknown"),
     File(CleanDoc, "gone", "Unknown")}

\* the files validated with -Json: those of the directories, a file that
\* cannot be read, documents with several findings, and files with a
\* project.json
JsonFiles ==
    DirFiles
    \cup {File(CleanDoc, "unreadable", "Unknown")}
    \cup {File(d, "ok", "Unknown") : d \in ReportDocs}
    \cup {FileWithProject([CleanDoc EXCEPT !.detectedLang = "VB"], "ok", pr, l) :
              pr \in {"missing", "unparsable", "found"}, l \in {"CSharp"}}

(***************************************************************************)
(* What the process writes.  Write-Host text and pipeline output reach     *)
(* stdout, error records reach stderr.  One item per written piece:        *)
(*   kind  "json" (one ConvertTo-Json object), "report" (the text report   *)
(*         of one result), "summary" (n/m files valid), "found" (n files   *)
(*         to validate), or the name of a message line                     *)
(***************************************************************************)
\* ToHashtable piped to ConvertTo-Json.  The value of "issues" is what the
\* pipeline over $this.Issues yields: nothing ($null) for no issue, the one
\* hashtable for one issue, an array for more
NoJson ==
    [is_valid |-> FALSE, error_count |-> 0, warning_count |-> 0,
     issues |-> [shape |-> "none", entries |-> <<>>],
     hr_compliance |-> <<>>, project_context |-> EmptyContext]

ToHashtable(res) ==
    [is_valid |-> res.IsValid,
     error_count |-> Cardinality(IssuesOfSeverity(res, {"ERROR"})),
     warning_count |-> Cardinality(IssuesOfSeverity(res, {"WARNING"})),
     issues |-> [shape |-> IF Len(res.Issues) = 0 THEN "null"
                           ELSE IF Len(res.Issues) = 1 THEN "object" ELSE "array",
                 entries |-> [i \in 1..Len(res.Issues) |->
                                [rule |-> res.Issues[i].Rule,
                                 severity |-> res.Issues[i].Severity,
                                 message |-> <<res.Issues[i].Items, res.Issues[i].More>>]]],
     hr_compliance |-> res.HRCompliance,
     project_context |-> res.ProjectContext]

OutputItem(kind, n, m, res, js) ==
    [kind |-> kind, n |-> n, m |-> m, res |-> res, json |-> js]

\* a line of text
HostLine(kind) == OutputItem(kind, 0, 0, NoResult, NoJson)

\* Write-ValidationReport: what it adds to stdout and to stderr.  With -Json
\* and no result the method call on $null fails and nothing is written to
\* stdout; the text report is written for any $Result
WriteValidationReport(res, asJson) ==
    IF asJson
    THEN IF res.Returned
         THEN [out |-> <<OutputItem("json", 0, 0, NoResult, ToHashtable(res))>>, err |-> <<>>]
         ELSE [out |-> <<>>, err |-> <<HostLine("You cannot call a method on a null-valued expression")>>]
    ELSE [out |-> <<OutputItem("report", 0, 0, res, NoJson)>>, err |-> <<>>]

\* $validCount of the directory summary
ValidCount(ress) == Len(FilterSeq(ress, {r \in Range(ress) : r.Returned /\ r.IsValid}))

\* no validate_workflow call: the script was started from a shell
NoTool == [phase |-> "none", settled |-> "none", stdout |-> <<>>, stderr |-> <<>>,
           exitCode |-> 0, isError |-> FALSE, text |-> <<>>]

(***************************************************************************)
(* The run.                                                                *)
(***************************************************************************)
InitRun ==
    /\ pc = "ResolvePath"
    /\ nsRegistry = NoRegistry
    /\ idx = 0
    /\ content = EmptyDoc
    /\ namespaces = <<>>
    /\ result = NoResult
    /\ results = <<>>
    /\ ran = <<>>
    /\ exitCode = Running
    /\ output = <<>>
    /\ errout = <<>>

Init ==
    /\ InitRun
    /\ tool = NoTool
    /\ strict \in BOOLEAN
    /\ regArg \in {"none", "bad", "good"}
    /\ \/ pathKind \in {"missing", "other"} /\ files = <<>> /\ json \in BOOLEAN
       \/ pathKind = "file" /\ files \in {<<f>> : f \in SingleFiles} /\ json = FALSE
       \/ pathKind = "file" /\ files \in {<<f>> : f \in JsonFiles} /\ json = TRUE
       \/ pathKind = "dir" /\ files \in SeqsUpTo(DirFiles, MaxFiles) /\ json \in BOOLEAN

CurrentFile == files[idx]

\* Resolve-Path fails: an error line, exit 1
PathNotFound ==
    /\ pc = "ResolvePath" /\ pathKind = "missing"
    /\ pc' = "Exited" /\ exitCode' = 1
    /\ output' = Append(output, HostLine("Error: Path not found"))
    /\ UNCHANGED <<json, tool, errout, pathKind, strict, regArg, nsRegistry, files, idx, content,
                   namespaces, result, results, ran>>

ResolvePath ==
    /\ pc = "ResolvePath" /\ pathKind # "missing"
    /\ pc' = "LoadRegistry"
    /\ UNCHANGED <<json, tool, output, errout, pathKind, strict, regArg, nsRegistry, files, idx, content,
                   namespaces, result, results, ran, exitCode>>

\* Get-NamespaceRegistry: $null without a path, for a missing file and for
\* unparsable JSON; the parsed object otherwise
GetNamespaceRegistry(arg) == IF arg = "good" THEN LoadedRegistry ELSE NoRegistry

LoadNamespaceRegistry ==
    /\ pc = "LoadRegistry"
    /\ nsRegistry' = GetNamespaceRegistry(regArg)
    /\ pc' = "Dispatch"
    /\ output' = IF regArg # "none" /\ ~GetNamespaceRegistry(regArg).loaded
                 THEN Append(output, HostLine("Warning: Could not load namespace registry"))
                 ELSE output
    /\ UNCHANGED <<json, tool, errout, pathKind, strict, regArg, files, idx, content, namespaces,
                   result, results, ran, exitCode>>

DispatchFile ==
    /\ pc = "Dispatch" /\ pathKind = "file"
    /\ idx' = 1 /\ pc' = "Invoke"
    /\ UNCHANGED <<json, tool, output, errout, pathKind, strict, regArg, nsRegistry, files, content,
                   namespaces, result, results, ran, exitCode>>

DispatchDirectory ==
    /\ pc = "Dispatch" /\ pathKind = "dir" /\ Len(files) > 0
    /\ idx' = 1 /\ pc' = "Invoke"
    /\ output' = Append(output, OutputItem("found", Len(files), 0, NoResult, NoJson))
    /\ UNCHANGED <<json, tool, errout, pathKind, strict, regArg, nsRegistry, files, content,
                   namespaces, result, results, ran, exitCode>>

\* "No .xaml files found": exit 0
DispatchEmptyDirectory ==
    /\ pc = "Dispatch" /\ pathKind = "dir" /\ Len(files) = 0
    /\ pc' = "Exited" /\ exitCode' = 0
    /\ output' = Append(output, HostLine("No .xaml files found"))
    /\ UNCHANGED <<json, tool, errout, pathKind, strict, regArg, nsRegistry, files, idx, content,
                   namespaces, result, results, ran>>

\* neither a file nor a directory: an error line, exit 1
DispatchOther ==
    /\ pc = "Dispatch" /\ pathKind = "other"
    /\ pc' = "Exited" /\ exitCode' = 1
    /\ output' = Append(output, HostLine("Error: Path is neither a file nor a directory"))
    /\ UNCHANGED <<json, tool, errout, pathKind, strict, regArg, nsRegistry, files, idx, content,
                   namespaces, result, results, ran>>

(***************************************************************************)
(* Invoke-XamlValidation.                                                  *)
(***************************************************************************)
\* the registry object binds to the parameter [hashtable]$NamespaceReg:
\* $null binds, the PSCustomObject ConvertFrom-Json returns does not
BindsToHashtable(reg) == ~reg.loaded

\* the call fails in parameter binding: the function body does not run, the
\* assignment to $result does not happen and the script goes on
InvokeBindingFails ==
    /\ pc = "Invoke" /\ ~BindsToHashtable(nsRegistry)
    /\ pc' = "Report"
    /\ ran' = <<>>
    /\ errout' = Append(errout, HostLine("Cannot process argument transformation on parameter 'NamespaceReg'"))
    /\ UNCHANGED <<json, tool, output, pathKind, strict, regArg, nsRegistry, files, idx, content,
                   namespaces, result, results, exitCode>>

\* InvokeBegin going on with the result of the file validated before
InvokeBeginKeepsResult ==
    /\ pc = "Invoke" /\ BindsToHashtable(nsRegistry)
    /\ result' = IF result.Returned THEN result
                 ELSE [NewResult EXCEPT !.ProjectContext = GetProjectContext(CurrentFile)]
    /\ ran' = <<>>
    /\ pc' = "Read"
    /\ UNCHANGED <<json, tool, output, errout, pathKind, strict, regArg, nsRegistry, files, idx, content,
                   namespaces, results, exitCode>>

InvokeBegin ==
    /\ pc = "Invoke" /\ BindsToHashtable(nsRegistry)
    /\ result' = [NewResult EXCEPT !.ProjectContext = GetProjectContext(CurrentFile)]
    /\ ran' = <<>>
    /\ pc' = "Read"
    /\ UNCHANGED <<json, tool, output, errout, pathKind, strict, regArg, nsRegistry, files, idx, content,
                   namespaces, results, exitCode>>

\* SynthesizedError reporting the failure as a warning
SynthesizedWarning(res, text) ==
    [AddIssue(res, NewIssue("Layer1-XML", "WARNING", <<text>>, FALSE)) EXCEPT !.IsValid = FALSE]

\* the result returned for a file that cannot be validated
SynthesizedError(res, text) ==
    [AddIssue(res, NewIssue("Layer1-XML", "ERROR", <<text>>, FALSE)) EXCEPT !.IsValid = FALSE]

FileNotFound ==
    /\ pc = "Read" /\ CurrentFile.state = "gone"
    /\ result' = SynthesizedError(result, "File not found")
    /\ pc' = "Report"
    /\ UNCHANGED <<json, tool, output, errout, pathKind, strict, regArg, nsRegistry, files, idx, content,
                   namespaces, results, ran, exitCode>>

\* Get-Content raises a terminating error: the catch block runs
ReadThrows ==
    /\ pc = "Read" /\ CurrentFile.state = "unreadable"
    /\ result' = SynthesizedError(result, "Error reading file")
    /\ pc' = "Report"
    /\ UNCHANGED <<json, tool, output, errout, pathKind, strict, regArg, nsRegistry, files, idx, content,
                   namespaces, results, ran, exitCode>>

\* Get-Content returns the text; when it reports a non-terminating error the
\* catch block does not run and $content is empty
ReadContent ==
    /\ pc = "Read" /\ CurrentFile.state \in {"ok", "unreadable"}
    /\ content' = IF CurrentFile.state = "ok" THEN CurrentFile.doc ELSE EmptyDoc
    /\ pc' = "Layer1"
    /\ errout' = IF CurrentFile.state = "ok" THEN errout
                 ELSE Append(errout, HostLine("Get-Content: cannot read the file"))
    /\ UNCHANGED <<json, tool, output, pathKind, strict, regArg, nsRegistry, files, idx, namespaces,
                   result, results, ran, exitCode>>

\* a rule function is called: from position "from" on to position "to"
RuleStep(from, to, fn, res) ==
    /\ pc = from
    /\ pc' = to
    /\ result' = res
    /\ ran' = Append(ran, fn)
    /\ UNCHANGED <<json, tool, output, errout, pathKind, strict, regArg, nsRegistry, files, idx, content,
                   namespaces, results, exitCode>>

\* Layer1Fails with the early return forgotten
Layer1FailsContinues ==
    /\ ~content.wellFormed
    /\ RuleStep("Layer1", "Namespaces", "Test-XmlWellFormed",
                [TestXmlWellFormed(content, result) EXCEPT !.IsValid = FALSE])

\* Layer 1 fails: IsValid = $false, return
Layer1Fails ==
    /\ ~content.wellFormed
    /\ RuleStep("Layer1", "Report", "Test-XmlWellFormed",
                [TestXmlWellFormed(content, result) EXCEPT !.IsValid = FALSE])

Layer1Passes ==
    /\ content.wellFormed
    /\ RuleStep("Layer1", "Namespaces", "Test-XmlWellFormed", TestXmlWellFormed(content, result))

ExtractNamespaces ==
    /\ pc = "Namespaces"
    /\ namespaces' = GetNamespaces(content)
    /\ pc' = "HR0"
    /\ UNCHANGED <<json, tool, output, errout, pathKind, strict, regArg, nsRegistry, files, idx, content,
                   result, results, ran, exitCode>>

RunHR0 ==
    RuleStep("HR0", "HR2", "Test-HR0-TemplateStructure", TestHR0TemplateStructure(content, result))

RunHR2 ==
    RuleStep("HR2", "NsUsage", "Test-HR2-RootInvariants",
             TestHR2RootInvariants(content, namespaces, result, nsRegistry))

RunNamespacePrefixUsage ==
    RuleStep("NsUsage", "HR3", "Test-NamespacePrefixUsage",
             TestNamespacePrefixUsage(content, namespaces, result))

RunHR3 ==
    RuleStep("HR3", "HR4", "Test-HR3-PrimaryContainer", TestHR3PrimaryContainer(content, result))

RunHR4 ==
    RuleStep("HR4", "HR5", "Test-HR4-ArgumentsVariables", TestHR4ArgumentsVariables(content, result))

RunHR5 ==
    RuleStep("HR5", "HR503", "Test-HR5-IdRefUniqueness", TestHR5IdRefUniqueness(content, result))

RunHR503 ==
    RuleStep("HR503", "HR6", "Test-HR503-IdRefDualDeclaration",
             TestHR503IdRefDualDeclaration(content, result))

RunHR6 ==
    RuleStep("HR6", "DoubleEncoding", "Test-HR6-ExpressionEncoding",
             TestHR6ExpressionEncoding(content, result))

RunDoubleEncoding ==
    RuleStep("DoubleEncoding", "HR7", "Test-DoubleEncoding", TestDoubleEncoding(content, result))

RunHR7 ==
    RuleStep("HR7", "HR9", "Test-HR7-NoUIAutomation", TestHR7NoUIAutomation(content, result))

RunHR9 ==
    RuleStep("HR9", "HR701", "Test-HR9-FlowchartViewState", TestHR9FlowchartViewState(content, result))

RunHR701 ==
    RuleStep("HR701", "Secrets", "Test-HR701-InvokeCodeLateBinding",
             TestHR701InvokeCodeLateBinding(content, result))

RunSecretsDetection ==
    RuleStep("Secrets", "TypeSystem", "Test-SecretsDetection", TestSecretsDetection(content, result))

RunTypeSystem ==
    RuleStep("TypeSystem", "ExpressionLang", "Test-TypeSystem", TestTypeSystem(content, result))

RunExpressionLanguage ==
    RuleStep("ExpressionLang", "FlowchartStructure", "Test-ExpressionLanguage",
             TestExpressionLanguage(content, result, result.ProjectContext.language))

RunFlowchartStructure ==
    RuleStep("FlowchartStructure", "ActivitySpecific", "Test-FlowchartStructure",
             TestFlowchartStructure(content, result))

RunActivitySpecific ==
    RuleStep("ActivitySpecific", "CommonNamespaces", "Test-ActivitySpecific",
             TestActivitySpecific(content, result))

RunCommonNamespaceRequirements ==
    RuleStep("CommonNamespaces", "Naming", "Test-CommonNamespaceRequirements",
             TestCommonNamespaceRequirements(content, namespaces, result))

RunNamingConventions ==
    RuleStep("Naming", "Logging", "Test-NamingConventions", TestNamingConventions(content, result))

RunLoggingPractices ==
    RuleStep("Logging", "Validity", "Test-LoggingPractices", TestLoggingPractices(content, result))

\* $result.IsValid = -not $hasErrors ; return $result
ReturnResult ==
    /\ pc = "Validity"
    /\ result' = DetermineValidity(result)
    /\ pc' = "Report"
    /\ UNCHANGED <<json, tool, output, errout, pathKind, strict, regArg, nsRegistry, files, idx, content,
                   namespaces, results, ran, exitCode>>

(***************************************************************************)
(* Report and exit code.                                                   *)
(***************************************************************************)
\* the number an expression ( ... | Where-Object { ... } ).Count yields for
\* the outputs of the pipeline: a single $null output has Count 0
PipelineCount(outputs) ==
    IF Len(outputs) = 1 /\ ~outputs[1].Returned THEN 0 ELSE Len(outputs)

\* HasIssues with the -Strict branch lost
HasIssuesErrorsOnly(res, strictSwitch) == IssuesOfSeverity(res, {"ERROR"}) # {}

\* $hasIssues of the single-file branch
HasIssues(res, strictSwitch) ==
    IF strictSwitch
    THEN IssuesOfSeverity(res, {"ERROR", "WARNING"}) # {}
    ELSE IssuesOfSeverity(res, {"ERROR"}) # {}

\* $allValid of the directory branch
AllValid(ress, strictSwitch) ==
    IF strictSwitch
    THEN PipelineCount(FilterSeq(ress, {r \in Range(ress) :
                                            IssuesOfSeverity(r, {"ERROR", "WARNING"}) # {}})) = 0
    ELSE PipelineCount(FilterSeq(ress, {r \in Range(ress) : ~r.IsValid})) = 0

\* Write-ValidationReport, single file
ReportSingle ==
    /\ pc = "Report" /\ pathKind = "file"
    /\ pc' = "Exit"
    /\ output' = output \o WriteValidationReport(result, json).out
    /\ errout' = errout \o WriteValidationReport(result, json).err
    /\ UNCHANGED <<json, tool, pathKind, strict, regArg, nsRegistry, files, idx, content,
                   namespaces, result, results, ran, exitCode>>

\* Write-ValidationReport and $results += $result, then the next file
ReportDirectory ==
    /\ pc = "Report" /\ pathKind = "dir"
    /\ results' = Append(results, result)
    /\ IF idx < Len(files)
       THEN idx' = idx + 1 /\ pc' = "Invoke"
       ELSE idx' = idx /\ pc' = "Exit"
    /\ output' = output \o WriteValidationReport(result, json).out
    /\ errout' = errout \o WriteValidationReport(result, json).err
    /\ UNCHANGED <<json, tool, pathKind, strict, regArg, nsRegistry, files, content,
                   namespaces, result, ran, exitCode>>

ExitSingle ==
    /\ pc = "Exit" /\ pathKind = "file"
    /\ exitCode' = IF HasIssues(result, strict) THEN 1 ELSE 0
    /\ pc' = "Exited"
    /\ UNCHANGED <<json, tool, output, errout, pathKind, strict, regArg, nsRegistry, files, idx, content,
                   namespaces, result, results, ran>>

ExitDirectory ==
    /\ pc = "Exit" /\ pathKind = "dir"
    /\ exitCode' = IF AllValid(results, strict) THEN 0 ELSE 1
    /\ pc' = "Exited"
    /\ output' = IF json THEN output
                 ELSE Append(output, OutputItem("summary", ValidCount(results), Len(results),
                                                NoResult, NoJson))
    /\ UNCHANGED <<json, tool, errout, pathKind, strict, regArg, nsRegistry, files, idx, content,
                   namespaces, result, results, ran>>

Next ==
    \/ PathNotFound
    \/ ResolvePath
    \/ LoadNamespaceRegistry
    \/ DispatchFile
    \/ DispatchDirectory
    \/ DispatchEmptyDirectory
    \/ DispatchOther
    \/ InvokeBindingFails
    \/ InvokeBegin
    \/ FileNotFound
    \/ ReadThrows
    \/ ReadContent
    \/ Layer1Fails
    \/ Layer1Passes
    \/ ExtractNamespaces
    \/ RunHR0
    \/ RunHR2
    \/ RunNamespacePrefixUsage
    \/ RunHR3
    \/ RunHR4
    \/ RunHR5
    \/ RunHR503
    \/ RunHR6
    \/ RunDoubleEncoding
    \/ RunHR7
    \/ RunHR9
    \/ RunHR701
    \/ RunSecretsDetection
    \/ RunTypeSystem
    \/ RunExpressionLanguage
    \/ RunFlowchartStructure
    \/ RunActivitySpecific
    \/ RunCommonNamespaceRequirements
    \/ RunNamingConventions
    \/ RunLoggingPractices
    \/ ReturnResult
    \/ ReportSingle
    \/ ReportDirectory
    \/ ExitSingle
    \/ ExitDirectory

Spec == Init /\ [][Next]_vars

(***************************************************************************)
(* Runs over a directory of two documents, the second being the first with *)
(* one more xmlns declaration, for a prefix the first uses and does not    *)
(* declare.                                                                *)
(***************************************************************************)
\* the text of doc with xmlns:p="u" added to the root element
AddDeclaration(doc, p, u) == [doc EXCEPT !.decls = Append(@, Decl(p, u))]

DeclaredUris == {StdUri, SdUri, OtherUri, UiAutomationUri}

InitMono ==
    /\ InitRun
    /\ strict = FALSE
    /\ json = FALSE
    /\ tool = NoTool
    /\ regArg = "none"
    /\ pathKind = "dir"
    /\ files \in {<<File(d, "ok", "Unknown"), File(AddDeclaration(d, p, u), "ok", "Unknown")>> :
                     d \in NsDocs, p \in {"mc", "sd", "scg", "uix", "x"}, u \in DeclaredUris}
    /\ files[1].doc.decls # files[2].doc.decls
    /\ LET d == files[1].doc
           added == files[2].doc.decls[Len(files[2].doc.decls)]
       IN added.prefix \in MissingPrefixes(d, GetNamespaces(d))

NextMono ==
    \/ ResolvePath
    \/ LoadNamespaceRegistry
    \/ DispatchDirectory
    \/ InvokeBegin
    \/ ReadContent
    \/ Layer1Passes
    \/ ExtractNamespaces
    \/ RunHR0
    \/ RunHR2
    \/ RunNamespacePrefixUsage
    \/ RunHR3
    \/ RunHR4
    \/ RunHR5
    \/ RunHR503
    \/ RunHR6
    \/ RunDoubleEncoding
    \/ RunHR7
    \/ RunHR9
    \/ RunHR701
    \/ RunSecretsDetection
    \/ RunTypeSystem
    \/ RunExpressionLanguage
    \/ RunFlowchartStructure
    \/ RunActivitySpecific
    \/ RunCommonNamespaceRequirements
    \/ RunNamingConventions
    \/ RunLoggingPractices
    \/ ReturnResult
    \/ ReportDirectory
    \/ ExitDirectory

SpecMono == InitMono /\ [][NextMono]_vars

(***************************************************************************)
(* The validate_workflow tool: runPowerShell starts the script with        *)
(* -Path xamlPath -Strict -Json and the handler turns the settled promise  *)
(* into the tool result.  tool.phase is the handler's position:            *)
(* "running" (awaiting), "settled", "returned"; tool.settled tells how the *)
(* promise settled.                                                        *)
(***************************************************************************)
InitTool ==
    /\ InitRun
    /\ tool = [NoTool EXCEPT !.phase = "running"]
    /\ strict = TRUE
    /\ json = TRUE
    /\ regArg = "none"
    /\ \/ pathKind \in {"missing", "other"} /\ files = <<>>
       \/ pathKind = "file" /\ files \in {<<f>> : f \in JsonFiles}
       \/ pathKind = "dir" /\ files \in SeqsUpTo(DirFiles, MaxFiles)

\* the execFile callback after the script has exited: error is null for exit
\* code 0 and carries the code otherwise; the promise resolves either way
ExecResolves ==
    /\ tool.phase = "running" /\ pc = "Exited"
    /\ tool' = [tool EXCEPT !.phase = "settled", !.settled = "resolved",
                            !.stdout = output, !.stderr = errout,
                            !.exitCode = IF exitCode = 0 THEN 0 ELSE 1]
    /\ UNCHANGED <<pc, json, output, errout, pathKind, strict, regArg, nsRegistry, files, idx,
                   content, namespaces, result, results, ran, exitCode>>

\* the timeout kills the script before it has exited: the error carries a
\* code, so the promise resolves with what was written so far and exitCode 1
ExecTimesOut ==
    /\ tool.phase = "running" /\ pc \notin {"Exited", "Killed"}
    /\ pc' = "Killed"
    /\ tool' = [tool EXCEPT !.phase = "settled", !.settled = "resolved",
                            !.stdout = output, !.stderr = errout, !.exitCode = 1]
    /\ UNCHANGED <<json, output, errout, pathKind, strict, regArg, nsRegistry, files, idx,
                   content, namespaces, result, results, ran, exitCode>>

\* execFile fails with an error that has no code before the script writes
\* anything: the promise rejects
ExecRejects ==
    /\ tool.phase = "running" /\ pc = "ResolvePath"
    /\ pc' = "Killed"
    /\ tool' = [tool EXCEPT !.phase = "settled", !.settled = "rejected"]
    /\ UNCHANGED <<json, output, errout, pathKind, strict, regArg, nsRegistry, files, idx,
                   content, namespaces, result, results, ran, exitCode>>

\* ToolReturns reporting a non-zero exit code as an error
ToolReturnsExitCodeAsError ==
    /\ tool.phase = "settled" /\ tool.settled = "resolved"
    /\ tool' = [tool EXCEPT !.phase = "returned",
                            !.text = IF tool.stdout # <<>> THEN tool.stdout ELSE tool.stderr,
                            !.isError = (tool.exitCode # 0)]
    /\ UNCHANGED <<pc, json, output, errout, pathKind, strict, regArg, nsRegistry, files, idx,
                   content, namespaces, result, results, ran, exitCode>>

\* const output = result.stdout || result.stderr ; isError: false
ToolReturns ==
    /\ tool.phase = "settled" /\ tool.settled = "resolved"
    /\ tool' = [tool EXCEPT !.phase = "returned",
                            !.text = IF tool.stdout # <<>> THEN tool.stdout ELSE tool.stderr,
                            !.isError = FALSE]
    /\ UNCHANGED <<pc, json, output, errout, pathKind, strict, regArg, nsRegistry, files, idx,
                   content, namespaces, result, results, ran, exitCode>>

\* the catch block: "System error: ...", isError: true
ToolCatches ==
    /\ tool.phase = "settled" /\ tool.settled = "rejected"
    /\ tool' = [tool EXCEPT !.phase = "returned",
                            !.text = <<HostLine("System error")>>,
                            !.isError = TRUE]
    /\ UNCHANGED <<pc, json, output, errout, pathKind, strict, regArg, nsRegistry, files, idx,
                   content, namespaces, result, results, ran, exitCode>>

NextTool ==
    \/ PathNotFound
    \/ ResolvePath
    \/ LoadNamespaceRegistry
    \/ DispatchFile
    \/ DispatchDirectory
    \/ DispatchEmptyDirectory
    \/ DispatchOther
    \/ InvokeBegin
    \/ FileNotFound
    \/ ReadThrows
    \/ ReadContent
    \/ Layer1Fails
    \/ Layer1Passes
    \/ ExtractNamespaces
    \/ RunHR0
    \/ RunHR2
    \/ RunNamespacePrefixUsage
    \/ RunHR3
    \/ RunHR4
    \/ RunHR5
    \/ RunHR503
    \/ RunHR6
    \/ RunDoubleEncoding
    \/ RunHR7
    \/ RunHR9
    \/ RunHR701
    \/ RunSecretsDetection
    \/ RunTypeSystem
    \/ RunExpressionLanguage
    \/ RunFlowchartStructure
    \/ RunActivitySpecific
    \/ RunCommonNamespaceRequirements
    \/ RunNamingConventions
    \/ RunLoggingPractices
    \/ ReturnResult
    \/ ReportSingle
    \/ ReportDirectory
    \/ ExitSingle
    \/ ExitDirectory
    \/ ExecResolves
    \/ ExecTimesOut
    \/ ExecRejects
    \/ ToolReturns
    \/ ToolCatches

SpecTool == InitTool /\ [][NextTool]_vars

(***************************************************************************)
(* Properties.                                                             *)
(***************************************************************************)
\* Invoke-XamlValidation has returned a result for the current file
ResultReturned == pc \in {"Report", "Exit", "Exited"} /\ idx > 0 /\ result.Returned

\* the rule function fn has run on the current file
HasRun(fn) == fn \in Range(ran)

ErrorIssues(res) == {i \in 1..Len(res.Issues) : res.Issues[i].Severity = "ERROR"}

WarningIssues(res) == {i \in 1..Len(res.Issues) : res.Issues[i].Severity = "WARNING"}

\* C1: a document that fails the well-formedness parse gets a result with
\* exactly one issue (rule Layer1-XML, severity ERROR), a compliance map whose
\* only key is Layer1-XML (= FAIL), isValid = false, and no later rule
\* function has run.
C1_MalformedShortCircuits ==
    (ResultReturned /\ CurrentFile.state = "ok" /\ ~CurrentFile.doc.wellFormed)
    => /\ Len(result.Issues) = 1
       /\ result.Issues[1].Rule = "Layer1-XML"
       /\ result.Issues[1].Severity = "ERROR"
       /\ ComplianceKeys(result) = {"Layer1-XML"}
       /\ ComplianceOf(result, "Layer1-XML") = "FAIL"
       /\ ~result.IsValid
       /\ ran = <<"Test-XmlWellFormed">>

\* a malformed document that holds a hard-coded password and has no x:Class
\* has been validated
C1_Witness ==
    /\ ResultReturned /\ CurrentFile.state = "ok"
    /\ ~CurrentFile.doc.wellFormed
    /\ CurrentFile.doc.creds # <<>>
    /\ Len(result.Issues) = 1

\* C2: in every result Invoke-XamlValidation returns (all rules ran,
\* well-formedness failed, file missing, file unreadable) isValid is true
\* exactly when no issue has severity ERROR, with and without -Strict; the same
\* holds of every result collected in directory mode.
C2_IsValidIffNoError ==
    /\ ResultReturned => (result.IsValid <=> ErrorIssues(result) = {})
    /\ \A k \in 1..Len(results) :
           results[k].Returned => (results[k].IsValid <=> ErrorIssues(results[k]) = {})

\* under -Strict a result with a WARNING and no ERROR is valid
C2_Witness ==
    /\ ResultReturned /\ strict
    /\ WarningIssues(result) # {} /\ ErrorIssues(result) = {}
    /\ result.IsValid
    /\ HasRun("Test-LoggingPractices")

\* C3: in single-file mode the exit code is 1 exactly when the result has an
\* ERROR issue, or -Strict is set and it has a WARNING issue, and 0 otherwise;
\* INFO issues never change it.
C3_SingleFileExitCode ==
    (pc = "Exited" /\ pathKind = "file")
    => /\ exitCode \in {0, 1}
       /\ exitCode = 1 <=> \/ ErrorIssues(result) # {}
                           \/ strict /\ WarningIssues(result) # {}
       /\ (ErrorIssues(result) = {} /\ WarningIssues(result) = {}) => exitCode = 0
       /\ (ErrorIssues(result) = {} /\ WarningIssues(result) # {})
              => exitCode = (IF strict THEN 1 ELSE 0)

\* 0 errors, 1 warning and an INFO issue under -Strict: exit code 1
C3_Witness ==
    /\ pc = "Exited" /\ pathKind = "file" /\ strict
    /\ ErrorIssues(result) = {}
    /\ Cardinality(WarningIssues(result)) = 1
    /\ \E i \in 1..Len(result.Issues) : result.Issues[i].Severity = "INFO"
    /\ exitCode = 1

\* the single-file exit criterion applied to one result
WouldExit1(res) ==
    \/ ErrorIssues(res) # {}
    \/ strict /\ WarningIssues(res) # {}

\* C4: in directory mode the exit code is 1 exactly when some file's result
\* would give exit code 1 under the single-file criterion with the same
\* -Strict, and 0 otherwise, the empty directory included.
C4_DirectoryExitCode ==
    (pc = "Exited" /\ pathKind = "dir")
    => exitCode = (IF \E k \in 1..Len(results) : WouldExit1(results[k]) THEN 1 ELSE 0)

\* the run was given a path that does not exist, a path that is neither a
\* file nor a directory, or a single file that is missing or unreadable
InvocationError ==
    \/ pathKind \in {"missing", "other"}
    \/ pathKind = "file" /\ files[1].state \in {"gone", "unreadable"}

\* C5 as stated: every invocation error ends with a result that has exactly
\* one ERROR issue, isValid = false and an empty compliance map, and exit
\* code 1.
C5_EveryErrorYieldsResult ==
    (pc = "Exited" /\ InvocationError)
    => /\ result.Returned
       /\ Len(result.Issues) = 1
       /\ result.Issues[1].Severity = "ERROR"
       /\ ~result.IsValid
       /\ result.HRCompliance = <<>>
       /\ exitCode = 1

\* C5: a missing path and a path that is neither file nor directory end with
\* exit code 1 and no result, no rule having run.  A result returned for a
\* file that is missing or unreadable has exactly one issue (Layer1-XML,
\* ERROR) and isValid = false; its compliance map is empty when the file is
\* missing or the read throws, and {Layer1-XML: FAIL} when the read fails
\* without throwing; no later rule has run, and single-file mode exits 1.
C5_InvocationErrors ==
    /\ (pc = "Exited" /\ pathKind \in {"missing", "other"})
       => (exitCode = 1 /\ ~result.Returned /\ results = <<>> /\ ran = <<>>)
    /\ (ResultReturned /\ CurrentFile.state \in {"gone", "unreadable"})
       => /\ Len(result.Issues) = 1
          /\ result.Issues[1].Rule = "Layer1-XML"
          /\ result.Issues[1].Severity = "ERROR"
          /\ ~result.IsValid
          /\ ran \in {<<>>, <<"Test-XmlWellFormed">>}
          /\ CurrentFile.state = "gone" => ran = <<>>
          /\ result.HRCompliance =
                 (IF ran = <<>> THEN <<>> ELSE << <<"Layer1-XML", "FAIL">> >>)
          /\ (pc = "Exited" /\ pathKind = "file") => exitCode = 1

\* a single file that does not exist: the synthesized result, exit code 1
C5_Witness ==
    /\ pc = "Exited" /\ pathKind = "file" /\ files[1].state = "gone"
    /\ result.Returned /\ Len(result.Issues) = 1
    /\ result.HRCompliance = <<>>
    /\ exitCode = 1

\* the required prefixes the text of the current document does not declare
UndeclaredRequired ==
    {p \in {"x", "sap2010"} :
        \A i \in 1..Len(content.decls) : content.decls[i].prefix # p}

\* HR-2 issues of severity ERROR in the current result
HR2Errors ==
    {i \in 1..Len(result.Issues) :
        result.Issues[i].Rule = "HR-2" /\ result.Issues[i].Severity = "ERROR"}

AllIdRefs == content.idrefs2010 \o content.idrefsSap

\* the values that occur two or more times
DuplicatedIdRefs ==
    {v \in Range(AllIdRefs) : Cardinality({i \in 1..Len(AllIdRefs) : AllIdRefs[i] = v}) >= 2}

HR5Errors ==
    {i \in 1..Len(result.Issues) :
        result.Issues[i].Rule = "HR-5" /\ result.Issues[i].Severity = "ERROR"}

\* C7: once Test-HR5-IdRefUniqueness has run on a document in which some
\* IdRef value occurs two or more times, both spellings counted together,
\* HR-5 is FAIL, there is exactly one HR-5 ERROR, and its message names each
\* duplicated value exactly once.
C7_DuplicateIdRefsReported ==
    (HasRun("Test-HR5-IdRefUniqueness") /\ DuplicatedIdRefs # {})
    => /\ ComplianceOf(result, "HR-5") = "FAIL"
       /\ Cardinality(HR5Errors) = 1
       /\ \A i \in HR5Errors : \A v \in DuplicatedIdRefs :
              Cardinality({k \in 1..Len(result.Issues[i].Items) :
                              result.Issues[i].Items[k] = v}) = 1

ActivityWarnings ==
    {i \in 1..Len(result.Issues) :
        result.Issues[i].Rule = "ActivitySpecific" /\ result.Issues[i].Severity = "WARNING"}

\* C8, for the logging activities that carry a DisplayName: once
\* Test-ActivitySpecific has run, a ui:LogMessage with a Message attribute and
\* no Level attribute has caused exactly one ActivitySpecific WARNING that
\* names the activity (or is cut by the display limit) and ActivitySpecific is
\* WARN, whatever activities precede or follow it.
C8_LogMessageWithoutLevel ==
    HasRun("Test-ActivitySpecific")
    => \A a \in 1..Len(content.acts) :
           (/\ content.acts[a].kind = "LogMessage"
            /\ {"DisplayName", "Message"} \subseteq content.acts[a].attrs
            /\ "Level" \notin content.acts[a].attrs)
           => /\ Cardinality(ActivityWarnings) = 1
              /\ ComplianceOf(result, "ActivitySpecific") = "WARN"
              /\ \A i \in ActivityWarnings :
                     \/ result.Issues[i].More
                     \/ \E k \in 1..Len(result.Issues[i].Items) :
                            /\ result.Issues[i].Items[k][1] = "LogMessage"
                            /\ result.Issues[i].Items[k][2] = content.acts[a].name

\* Password="{x:Null}", Password="[expr]" and IsPassword="False"
BenignCreds ==
    {Cred(FALSE, "password", <<"{x:Null}">>),
     Cred(FALSE, "password", <<"[", "expr", "]">>),
     Cred(TRUE, "password", <<"False">>)}

SecretsIssues == {i \in 1..Len(result.Issues) : result.Issues[i].Rule = "Secrets"}

\* C9: once Test-SecretsDetection has run, a document whose credential-like
\* attributes are only Password="{x:Null}", Password="[expr]" and
\* IsPassword="False" has no Secrets issue and Secrets = PASS; a document
\* holding Password="Sup3rSecret!" has exactly one Secrets issue, of severity
\* ERROR, and Secrets = FAIL.
C9_SecretsExclusions ==
    HasRun("Test-SecretsDetection")
    => /\ (Range(content.creds) \subseteq BenignCreds /\ content.otherSecrets = <<>>)
          => (SecretsIssues = {} /\ ComplianceOf(result, "Secrets") = "PASS")
       /\ Cred(FALSE, "password", <<"Sup3rSecret", "!">>) \in Range(content.creds)
          => /\ Cardinality(SecretsIssues) = 1
             /\ \A i \in SecretsIssues : result.Issues[i].Severity = "ERROR"
             /\ ComplianceOf(result, "Secrets") = "FAIL"

\* IsPassword="False" and Password="[expr]" in one document: nothing reported
C9_Witness ==
    /\ HasRun("Test-SecretsDetection")
    /\ content.creds = <<Cred(TRUE, "password", <<"False">>),
                         Cred(FALSE, "password", <<"[", "expr", "]">>)>>
    /\ ComplianceOf(result, "Secrets") = "PASS"

\* both documents of the pair have been validated
PairValidated ==
    /\ pc = "Exited" /\ Len(results) = 2
    /\ results[1].Returned /\ results[2].Returned

\* the declaration the second document has and the first has not
AddedDecl == files[2].doc.decls[Len(files[2].doc.decls)]

\* the prefixes the HR-Namespace-Usage ERROR of a result lists
UsageList(res) ==
    LET E == {i \in 1..Len(res.Issues) :
                 res.Issues[i].Rule = "HR-Namespace-Usage" /\ res.Issues[i].Severity = "ERROR"}
    IN IF E = {} THEN <<>> ELSE res.Issues[CHOOSE i \in E : TRUE].Items

\* the usage list of D2 is that of D1 without the added prefix
UsageListShrinks ==
    UsageList(results[2]) =
        FilterSeq(UsageList(results[1]), Range(UsageList(results[1])) \ {AddedDecl.prefix})

\* D1 yielded an issue of the same rule and severity
YieldedByD1(issue) ==
    \E j \in 1..Len(results[1].Issues) :
        /\ results[1].Issues[j].Rule = issue.Rule
        /\ results[1].Issues[j].Severity = issue.Severity

FileReports == SelectSeq(output, LAMBDA o : o.kind \in {"json", "report"})

ResultInHand == result.Returned

\* C12 as stated: at most one issue carries any one rule id.
C12_OneIssuePerRule ==
    ResultInHand
    => \A i, j \in 1..Len(result.Issues) :
           result.Issues[i].Rule = result.Issues[j].Rule => i = j

\* the rule ids under which a rule function reports two checks
TwoCheckRules == {"HR-2", "HR-4", "Standards-Naming"}

\* C12: at most one issue carries any one pair of rule id and severity, two
\* issues share a rule id only under HR-2 (ERROR and INFO), HR-4 (WARNING and
\* ERROR) and Standards-Naming (INFO and WARNING), and so no rule id is
\* carried by more than two issues, however many items violate the rule.
C12_IssuesPerRuleBounded ==
    ResultInHand
    => /\ \A i, j \in 1..Len(result.Issues) :
              (/\ result.Issues[i].Rule = result.Issues[j].Rule
               /\ result.Issues[i].Severity = result.Issues[j].Severity) => i = j
       /\ \A i, j \in 1..Len(result.Issues) :
              (i # j /\ result.Issues[i].Rule = result.Issues[j].Rule)
              => result.Issues[i].Rule \in TwoCheckRules
       /\ \A i \in 1..Len(result.Issues) :
              Cardinality(IssuesOfRule(result, result.Issues[i].Rule)) <= 2

\* two undeclared prefixes listed in the one HR-Namespace-Usage issue, next
\* to two issues of rule HR-2
C12_Witness ==
    /\ ResultReturned
    /\ \E i \in 1..Len(result.Issues) :
           /\ result.Issues[i].Rule = "HR-Namespace-Usage"
           /\ Len(result.Issues[i].Items) >= 2
    /\ Cardinality(IssuesOfRule(result, "HR-Namespace-Usage")) = 1
    /\ Cardinality(IssuesOfRule(result, "HR-2")) = 2

\* the rule functions in the order Invoke-XamlValidation calls them
RuleOrder ==
    <<"Test-XmlWellFormed", "Test-HR0-TemplateStructure", "Test-HR2-RootInvariants",
      "Test-NamespacePrefixUsage", "Test-HR3-PrimaryContainer", "Test-HR4-ArgumentsVariables",
      "Test-HR5-IdRefUniqueness", "Test-HR503-IdRefDualDeclaration",
      "Test-HR6-ExpressionEncoding", "Test-DoubleEncoding", "Test-HR7-NoUIAutomation",
      "Test-HR9-FlowchartViewState", "Test-HR701-InvokeCodeLateBinding",
      "Test-SecretsDetection", "Test-TypeSystem", "Test-ExpressionLanguage",
      "Test-FlowchartStructure", "Test-ActivitySpecific", "Test-CommonNamespaceRequirements",
      "Test-NamingConventions", "Test-LoggingPractices">>

\* the compliance key each rule function owns ("none": the function has no key)
RuleKey(fn) ==
    CASE fn = "Test-XmlWellFormed" -> "Layer1-XML"
      [] fn = "Test-HR0-TemplateStructure" -> "HR-0"
      [] fn = "Test-HR2-RootInvariants" -> "HR-2"
      [] fn = "Test-NamespacePrefixUsage" -> "HR-Namespace-Usage"
      [] fn = "Test-HR3-PrimaryContainer" -> "HR-3"
      [] fn = "Test-HR4-ArgumentsVariables" -> "HR-4"
      [] fn = "Test-HR5-IdRefUniqueness" -> "HR-5"
      [] fn = "Test-HR503-IdRefDualDeclaration" -> "HR-503"
      [] fn = "Test-HR6-ExpressionEncoding" -> "HR-6"
      [] fn = "Test-DoubleEncoding" -> "HR-Double-Encoding"
      [] fn = "Test-HR7-NoUIAutomation" -> "HR-7"
      [] fn = "Test-HR9-FlowchartViewState" -> "HR-9"
      [] fn = "Test-HR701-InvokeCodeLateBinding" -> "HR-701"
      [] fn = "Test-SecretsDetection" -> "Secrets"
      [] fn = "Test-TypeSystem" -> "TypeSystem"
      [] fn = "Test-ExpressionLanguage" -> "ExpressionLang"
      [] fn = "Test-FlowchartStructure" -> "FlowchartStructure"
      [] fn = "Test-ActivitySpecific" -> "ActivitySpecific"
      [] fn = "Test-CommonNamespaceRequirements" -> "Namespace-Common-Types"
      [] OTHER -> "none"

\* what the rule function fn makes of the result res, given the text, the
\* namespaces, the context and the registry of the run
RuleOutcome(fn, res) ==
    CASE fn = "Test-XmlWellFormed" -> TestXmlWellFormed(content, res)
      [] fn = "Test-HR0-TemplateStructure" -> TestHR0TemplateStructure(content, res)
      [] fn = "Test-HR2-RootInvariants" -> TestHR2RootInvariants(content, namespaces, res, nsRegistry)
      [] fn = "Test-NamespacePrefixUsage" -> TestNamespacePrefixUsage(content, namespaces, res)
      [] fn = "Test-HR3-PrimaryContainer" -> TestHR3PrimaryContainer(content, res)
      [] fn = "Test-HR4-ArgumentsVariables" -> TestHR4ArgumentsVariables(content, res)
      [] fn = "Test-HR5-IdRefUniqueness" -> TestHR5IdRefUniqueness(content, res)
      [] fn = "Test-HR503-IdRefDualDeclaration" -> TestHR503IdRefDualDeclaration(content, res)
      [] fn = "Test-HR6-ExpressionEncoding" -> TestHR6ExpressionEncoding(content, res)
      [] fn = "Test-DoubleEncoding" -> TestDoubleEncoding(content, res)
      [] fn = "Test-HR7-NoUIAutomation" -> TestHR7NoUIAutomation(content, res)
      [] fn = "Test-HR9-FlowchartViewState" -> TestHR9FlowchartViewState(content, res)
      [] fn = "Test-HR701-InvokeCodeLateBinding" -> TestHR701InvokeCodeLateBinding(content, res)
      [] fn = "Test-SecretsDetection" -> TestSecretsDetection(content, res)
      [] fn = "Test-TypeSystem" -> TestTypeSystem(content, res)
      [] fn = "Test-ExpressionLanguage" ->
             TestExpressionLanguage(content, res, res.ProjectContext.language)
      [] fn = "Test-FlowchartStructure" -> TestFlowchartStructure(content, res)
      [] fn = "Test-ActivitySpecific" -> TestActivitySpecific(content, res)
      [] fn = "Test-CommonNamespaceRequirements" ->
             TestCommonNamespaceRequirements(content, namespaces, res)
      [] fn = "Test-NamingConventions" -> TestNamingConventions(content, res)
      [] OTHER -> TestLoggingPractices(content, res)

IsPrefixOf(s, t) == Len(s) <= Len(t) /\ SubSeq(t, 1, Len(s)) = s

\* a result that holds the context of res and nothing any rule has written
BlankOf(res) == [NewResult EXCEPT !.ProjectContext = res.ProjectContext]

LoaderLines ==
    {i \in 1..Len(output) : output[i] = HostLine("Warning: Could not load namespace registry")}

\* the project metadata of the file under validation is missing or unparsable
MetadataFailed == idx > 0 /\ CurrentFile.proj \in {"missing", "unparsable"}

\* C14: a registry that is missing or unparsable and project metadata that is
\* missing or unparsable are silent: nothing of the loader's own is written
\* to the output, the result carries the Unknown context, no issue of rule
\* Namespace-Registry or ExpressionLang is raised and ExpressionLang is N/A.
C14_ContextFailureSilent ==
    /\ regArg = "bad"
       => /\ LoaderLines = {}
          /\ result.Returned => IssuesOfRule(result, "Namespace-Registry") = {}
    /\ (MetadataFailed /\ ResultReturned)
       => /\ result.ProjectContext = UnknownContext
          /\ IssuesOfRule(result, "ExpressionLang") = {}
          /\ HasRun("Test-ExpressionLanguage") => ComplianceOf(result, "ExpressionLang") = "N/A"

\* C15: with a registry that loads, the validation of a readable document
\* completes with a result; the result holds one Namespace-Registry WARNING
\* listing the declared non-default prefixes whose URI differs from the
\* registry's when there is such a prefix and none otherwise, and HR-2 is
\* FAIL exactly when a required prefix is missing.
C15_RegistryCrossCheck ==
    (regArg = "good" /\ pc \in {"Report", "Exit", "Exited"} /\ pathKind = "file"
        /\ files[1].state = "ok" /\ files[1].doc.wellFormed)
    => /\ result.Returned
       /\ LET drift == MismatchedNs(namespaces, nsRegistry)
              found == IssuesOfRule(result, "Namespace-Registry")
          IN /\ Cardinality(found) = (IF drift = {} THEN 0 ELSE 1)
             /\ \A i \in found : /\ result.Issues[i].Severity = "WARNING"
                                 /\ Range(result.Issues[i].Items) = drift
       /\ ComplianceOf(result, "HR-2")
              = (IF Len(MissingRequired(namespaces)) > 0 THEN "FAIL" ELSE "PASS")

\* a directory run without a registry argument has ended
DirectoryRunEnded == pc = "Exited" /\ pathKind = "dir" /\ regArg = "none"

\* C16: a directory run with -Json writes to stdout one JSON object per
\* validated file, in enumeration order, and nothing else; the aggregate
\* summary is written in text mode only.
C16_DirectoryJsonOnly ==
    /\ (DirectoryRunEnded /\ json)
       => /\ Len(output) = Len(files)
          /\ \A k \in 1..Len(output) :
                 output[k] = OutputItem("json", 0, 0, NoResult, ToHashtable(results[k]))
    /\ (DirectoryRunEnded /\ ~json /\ Len(files) > 0)
       => Cardinality({k \in 1..Len(output) : output[k].kind = "summary"}) = 1

\* the documents of the run that the exit criterion does not disqualify
NotDisqualified == {k \in 1..Len(results) : ~WouldExit1(results[k])}

\* C17: a directory run in text mode writes the summary once, as the last
\* item, after one report per file; its M is the number of documents
\* validated and its N the number of documents not disqualified, where under
\* -Strict a document with a WARNING is disqualified.
C17_SummaryCounts ==
    (DirectoryRunEnded /\ ~json /\ Len(files) > 0)
    => /\ Cardinality({k \in 1..Len(output) : output[k].kind = "summary"}) = 1
       /\ Len(output) = Len(files) + 2
       /\ \A k \in 1..Len(files) : output[k + 1] = OutputItem("report", 0, 0, results[k], NoJson)
       /\ output[Len(output)].kind = "summary"
       /\ output[Len(output)].m = Len(files)
       /\ output[Len(output)].n = Cardinality(NotDisqualified)

\* the JSON objects written to stdout
JsonItems == {k \in 1..Len(output) : output[k].kind = "json"}

\* C18: the JSON object written for a result has error_count = number of
\* ERROR issues, warning_count = number of WARNING issues, is_valid true
\* exactly when error_count is 0, and issues as a list with one entry per
\* issue in emission order, for zero, one or many issues.
C18_JsonShape ==
    (pathKind = "file" /\ json /\ pc \in {"Exit", "Exited"} /\ result.Returned)
    => /\ Cardinality(JsonItems) = 1
       /\ \A k \in JsonItems :
           LET js == output[k].json
           IN /\ js.error_count = Cardinality(ErrorIssues(result))
              /\ js.warning_count = Cardinality(WarningIssues(result))
              /\ js.is_valid = (js.error_count = 0)
              /\ js.issues.shape = "array"
              /\ Len(js.issues.entries) = Len(result.Issues)
              /\ \A i \in 1..Len(result.Issues) :
                     /\ js.issues.entries[i].rule = result.Issues[i].Rule
                     /\ js.issues.entries[i].severity = result.Issues[i].Severity

\* the script started by the tool has exited
RunCompleted == tool.settled = "resolved" /\ pc = "Exited"

\* C19: when the linter run completes, with exit code 0 or 1, the tool
\* result has isError = false and its text is the script's stdout as written
\* (its stderr when stdout is empty); a result with isError = true comes
\* from a rejected subprocess call only, never from an exit code.
C19_ToolForwardsOutput ==
    tool.phase = "returned"
    => /\ RunCompleted
          => /\ ~tool.isError
             /\ tool.text = (IF output # <<>> THEN output ELSE errout)
             /\ tool.exitCode = (IF exitCode = 0 THEN 0 ELSE 1)
       /\ tool.isError <=> tool.settled = "rejected"
       /\ tool.isError => tool.text = <<HostLine("System error")>>

\* the tool has returned the JSON of a run that exited with code 1
C19_Witness ==
    /\ tool.phase = "returned" /\ RunCompleted /\ exitCode = 1
    /\ ~tool.isError
    /\ tool.text = output /\ JsonItems # {}

\* the document has no IdRef, in either spelling or as an element
NoIdRef(doc) == doc.idrefs2010 = <<>> /\ doc.idrefsSap = <<>> /\ doc.idrefElems = <<>>

\* the rule function fn has run and left status N/A under key, and no issue
\* of that rule
NotApplicable(fn, key) ==
    HasRun(fn) => ComplianceOf(result, key) = "N/A" /\ IssuesOfRule(result, key) = {}

\* C20: a rule whose applicability condition is false records N/A and emits
\* no issue: HR-5 and HR-503 without any IdRef, HR-9 and FlowchartStructure
\* without a Flowchart, HR-701 without an InvokeCode activity, ExpressionLang
\* with the language Unknown.
C20_NotApplicableRecorded ==
    /\ NoIdRef(content) => /\ NotApplicable("Test-HR5-IdRefUniqueness", "HR-5")
                           /\ NotApplicable("Test-HR503-IdRefDualDeclaration", "HR-503")
    /\ content.flowchart = "none"
       => /\ NotApplicable("Test-HR9-FlowchartViewState", "HR-9")
          /\ NotApplicable("Test-FlowchartStructure", "FlowchartStructure")
    /\ content.invokeCodes = 0 => NotApplicable("Test-HR701-InvokeCodeLateBinding", "HR-701")
    /\ result.ProjectContext.language = "Unknown"
       => NotApplicable("Test-ExpressionLanguage", "ExpressionLang")

\* the severities of the issues of rule r in the result, in emission order
SeveritiesOf(r) ==
    LET at == IssuesOfRule(result, r)
    IN [k \in 1..Cardinality(at) |->
           result.Issues[CHOOSE i \in at : Cardinality({j \in at : j <= i}) = k].Severity]

\* C21: with N the number of Sequence, Flowchart and StateMachine opening
\* tags of the document, HR-3 gives one ERROR and FAIL for N = 0, no issue
\* and PASS for N = 1, and one INFO with PASS for N > 1, nested or not; the
\* INFO never makes the result invalid.
C21_PrimaryContainer ==
    (ResultReturned /\ HasRun("Test-HR3-PrimaryContainer"))
    => LET N == Len(content.containers)
       IN /\ N = 0 => /\ SeveritiesOf("HR-3") = <<"ERROR">>
                      /\ ComplianceOf(result, "HR-3") = "FAIL"
                      /\ ~result.IsValid
          /\ N = 1 => /\ SeveritiesOf("HR-3") = <<>>
                      /\ ComplianceOf(result, "HR-3") = "PASS"
          /\ N > 1 => /\ SeveritiesOf("HR-3") = <<"INFO">>
                      /\ ComplianceOf(result, "HR-3") = "PASS"
                      /\ Len(result.Issues) = 1 => result.IsValid

\* a valid result for a document with a Sequence inside a Sequence, the
\* INFO naming both
C21_Witness ==
    /\ ResultReturned /\ pc = "Exited"
    /\ content.containers = <<"Sequence", "Sequence">>
    /\ SeveritiesOf("HR-3") = <<"INFO">>
    /\ result.IsValid

\* an IdRef value written both as an attribute and as a child element
DualValues(doc) == Range(doc.idrefs2010) \cap Range(doc.idrefElems)

\* C22: on a document with IdRefs the dual-declaration rule emits at most one
\* issue: an ERROR with HR-503 = FAIL exactly when some value is written both
\* as an attribute and as a child element; otherwise a WARNING with WARN
\* exactly when there is an element-form IdRef; otherwise no issue and PASS.
C22_DualDeclaration ==
    (ResultReturned /\ HasRun("Test-HR503-IdRefDualDeclaration") /\ ~NoIdRef(content))
    => /\ Len(SeveritiesOf("HR-503")) <= 1
       /\ IF DualValues(content) # {}
          THEN SeveritiesOf("HR-503") = <<"ERROR">> /\ ComplianceOf(result, "HR-503") = "FAIL"
          ELSE IF content.idrefElems # <<>>
          THEN SeveritiesOf("HR-503") = <<"WARNING">> /\ ComplianceOf(result, "HR-503") = "WARN"
          ELSE SeveritiesOf("HR-503") = <<>> /\ ComplianceOf(result, "HR-503") = "PASS"

\* the document's double-encoded entities stand in the text bodies of
\* selector elements only
OnlyInSelectorBodies(doc) ==
    /\ doc.doubleEncodingIssues = 0
    /\ \E i \in 1..Len(doc.bodies) : doc.bodies[i].entity
    /\ \A i \in 1..Len(doc.bodies) :
           doc.bodies[i].entity => doc.bodies[i].tag \in SelectorElementNames

\* C23: a document whose double-encoded entities occur only in the text
\* bodies of Selector, FullSelectorArgument and FuzzySelectorArgument
\* elements gets HR-Double-Encoding = PASS and no HR-Double-Encoding issue.
C23_SelectorBodiesExempt ==
    (ResultReturned /\ HasRun("Test-DoubleEncoding") /\ OnlyInSelectorBodies(content))
    => /\ ComplianceOf(result, "HR-Double-Encoding") = "PASS"
       /\ IssuesOfRule(result, "HR-Double-Encoding") = {}

\* some Variable name equals some argument name
Shadowing(doc) == Range(doc.vars) \cap Range(doc.args) # {}

\* some Variable name equals some argument name when case is ignored
ShadowingIgnoringCase(doc) ==
    \E v \in Range(doc.vars), a \in Range(doc.args) : FoldName(v) = FoldName(a)

\* some argument name lacks the in_/out_/io_ prefix
UnprefixedArgument(doc) == \E k \in 1..Len(doc.args) : ~HasDirection(doc.args[k])

\* the HR-4 outcome of the result when shadowing is what shadows tells
HR4Outcome(shadows) ==
    LET sev == SeveritiesOf("HR-4")
        errors == {k \in 1..Len(sev) : sev[k] = "ERROR"}
        warnings == {k \in 1..Len(sev) : sev[k] = "WARNING"}
    IN /\ ComplianceOf(result, "HR-4") = (IF shadows THEN "FAIL" ELSE "PASS")
       /\ Cardinality(errors) = (IF shadows THEN 1 ELSE 0)
       /\ Cardinality(warnings) = (IF UnprefixedArgument(content) THEN 1 ELSE 0)
       /\ (UnprefixedArgument(content) /\ strict /\ pathKind = "file" /\ pc = "Exited")
          => exitCode = 1

\* C24 as stated: HR-4 is FAIL, with one ERROR, exactly when some Variable
\* name equals some argument name; an argument name without in_/out_/io_
\* gives one HR-4 WARNING, which leaves the status PASS when nothing is
\* shadowed and disqualifies the file under -Strict.
C24_ArgumentsVariables ==
    (ResultReturned /\ HasRun("Test-HR4-ArgumentsVariables"))
    => HR4Outcome(Shadowing(content))

\* C24 amended: the same, with the Variable and argument names compared
\* without regard to case.
C24_ArgumentsVariablesIgnoringCase ==
    (ResultReturned /\ HasRun("Test-HR4-ArgumentsVariables"))
    => HR4Outcome(ShadowingIgnoringCase(content))

\* the variable In_arg next to the argument in_arg: HR-4 is FAIL
C24_Witness ==
    /\ ResultReturned /\ HasRun("Test-HR4-ArgumentsVariables")
    /\ ShadowingIgnoringCase(content) /\ ~Shadowing(content)
    /\ ComplianceOf(result, "HR-4") = "FAIL"
    /\ ~result.IsValid

\* an argument without prefix, nothing shadowed, -Strict: one WARNING, PASS,
\* a valid result and exit code 1
C24_WarningOnly ==
    /\ ResultReturned /\ pc = "Exited" /\ pathKind = "file" /\ strict
    /\ UnprefixedArgument(content) /\ ~ShadowingIgnoringCase(content)
    /\ ComplianceOf(result, "HR-4") = "PASS" /\ result.IsValid /\ exitCode = 1

\* the place of the file under validation
CurrentPlace == CurrentFile.place

\* the directories from the document's to dir, in upward order
Upward(dir) == [k \in 1..(dir + 1) |-> k - 1]

\* the nearest directory at or above the document's that holds a project.json
Nearest(place) == CHOOSE d \in place.projectDirs : \A e \in place.projectDirs : d <= e

\* C25: without -ProjectJson the resolver examines the document's directory
\* and then each ancestor in order, stops at the nearest one that holds a
\* project.json and uses it, and ends at the root with the Unknown context
\* when there is none; with -ProjectJson it examines no directory, and a
\* path that names nothing gives the Unknown context.
C25_ProjectDiscovery ==
    (ResultReturned /\ CurrentFile.proj = "found")
    => LET place == CurrentPlace
           search == SearchPath(place)
       IN /\ place.explicit = "none" /\ place.projectDirs # {}
             => /\ search.examined = Upward(Nearest(place))
                /\ result.ProjectContext.projectPath = PathOf("discovered", Nearest(place))
                /\ result.ProjectContext.language = CurrentFile.lang
          /\ place.explicit = "none" /\ place.projectDirs = {}
             => /\ search.examined = Upward(place.depth)
                /\ result.ProjectContext = UnknownContext
          /\ place.explicit = "exists"
             => /\ search.examined = <<>>
                /\ result.ProjectContext.projectPath = PathOf("explicit", 0)
          /\ place.explicit = "missing"
             => /\ search.examined = <<>>
                /\ result.ProjectContext = UnknownContext

\* a document two directories below the one that holds the project.json,
\* no -ProjectJson: the context comes from that project.json
C25_Witness ==
    /\ ResultReturned
    /\ CurrentPlace.explicit = "none" /\ CurrentPlace.projectDirs = {2}
    /\ result.ProjectContext.projectPath = PathOf("discovered", 2)
    /\ result.ProjectContext.language = "CSharp"

\* -ProjectJson names nothing while the document's directory holds a
\* project.json: the context stays Unknown
C25_WitnessExplicit ==
    /\ ResultReturned
    /\ CurrentPlace.explicit = "missing" /\ 0 \in CurrentPlace.projectDirs
    /\ result.ProjectContext = UnknownContext

(***************************************************************************)
(* The format normalizer (src/format-normalizer.ts).  A JSON value is a    *)
(* record tagged by its kind; a JSON object is a record of the properties  *)
(* the normalizer reads, Undef where the property is missing.  A string is *)
(* the sequence of its tokens.                                             *)
(***************************************************************************)
Undef == [k |-> "undef"]
Null == [k |-> "null"]
Num == [k |-> "num"]                        \* the JSON number 4
Str(s) == [k |-> "str", s |-> s]
Arr(items) == [k |-> "arr", items |-> items]
Dict(entries) == [k |-> "dict", entries |-> entries]   \* {key: activity, ...}

Obj == [k |-> "obj", type |-> "", to |-> Undef, value |-> Undef,
        activities |-> Undef, children |-> Undef, then |-> Undef, else |-> Undef,
        try |-> Undef, finally |-> Undef, catches |-> Undef, body |-> Undef,
        cases |-> Undef, default |-> Undef, activity |-> Undef, key |-> Undef,
        case |-> Undef, handler |-> Undef, exceptionType |-> Undef,
        variableName |-> Undef, variableType |-> Undef, xTypeArguments |-> Undef,
        typeArguments |-> Undef, activityAction |-> Undef, argument |-> Undef,
        name |-> Undef, values |-> Undef, condition |-> Undef,
        expression |-> Undef, message |-> Undef]

\* JavaScript truthiness and typeof v === "object" (null excluded by Truthy)
Truthy(v) ==
    CASE v.k \in {"undef", "null"} -> FALSE
      [] v.k = "str" -> v.s # <<>>
      [] OTHER -> TRUE

IsObject(v) == v.k \in {"obj", "arr", "dict"}

\* v.f: undefined on anything that is not an object with that property
Get(v, f) == IF v.k = "obj" THEN v[f] ELSE Undef

TypeOf(v) == IF v.k = "obj" THEN v.type ELSE ""

\* String(v)
StringOf(v) == IF v.k = "num" THEN Str(<<"4">>) ELSE v

Digits == {"4", "2"}

IsDigits(s) == s # <<>> /\ \A i \in 1..Len(s) : s[i] \in Digits

Unsigned(s) == IF s # <<>> /\ s[1] = "-" THEN Tail(s) ELSE s

\* /^-?\d+$/
IsInteger(raw) == IsDigits(Unsigned(raw))

\* /^-?\d+\.\d+$/
IsDouble(raw) ==
    LET u == Unsigned(raw)
    IN \E p \in 1..Len(u) : /\ u[p] = "."
                            /\ IsDigits(SubSeq(u, 1, p - 1))
                            /\ IsDigits(SubSeq(u, p + 1, Len(u)))

Bracketed(value) == value # <<>> /\ value[1] = "[" /\ value[Len(value)] = "]"

ensureBrackets(value) ==
    IF value = <<>> THEN value
    ELSE IF Bracketed(value) THEN value
    ELSE <<"[">> \o value \o <<"]">>

inferType(value, defaultType) ==
    IF value = <<>> THEN defaultType
    ELSE LET raw == IF Bracketed(value) THEN SubSeq(value, 2, Len(value) - 1) ELSE value
         IN IF raw = <<"True">> \/ raw = <<"False">> THEN "Boolean"
            ELSE IF IsInteger(raw) THEN "Int32"
            ELSE IF IsDouble(raw) THEN "Double"
            ELSE IF raw # <<>> /\ raw[1] = "\"" /\ raw[Len(raw)] = "\"" THEN "String"
            ELSE defaultType

\* the typed object {type, value}
TypedField(type, value) == [Obj EXCEPT !.type = type, !.value = Str(value)]

normalizeTypedField(value, defaultType, isVariable) ==
    TypedField(IF isVariable THEN defaultType ELSE inferType(value, defaultType),
               ensureBrackets(value))

\* every normalize* function below maps the activity and the warnings so
\* far to the activity and the warnings after it
normalizeAssign(activity, warnings) ==
    LET a1 == IF activity.to.k = "str"
              THEN [activity EXCEPT !.to = normalizeTypedField(activity.to.s, "String", TRUE)]
              ELSE activity
        w1 == IF activity.to.k = "str"
              THEN Append(warnings, "Converted Assign.to from flat string to typed object")
              ELSE warnings
        rawValue == a1.value.s
        inferredType == IF TypeOf(a1.to) # "" THEN TypeOf(a1.to)
                        ELSE inferType(rawValue, "String")
    IN IF a1.value.k = "str"
       THEN [a |-> [a1 EXCEPT !.value = normalizeTypedField(rawValue, inferredType, FALSE)],
             w |-> Append(w1, "Converted Assign.value from flat string to typed object")]
       ELSE [a |-> a1, w |-> w1]

\* a || b
OrElse(a, b) == IF Truthy(a) THEN a ELSE b

\* typeArg.includes(":") ? typeArg.split(":")[1] : typeArg
StripPrefix(s) ==
    IF \E i \in 1..Len(s) : s[i] = ":"
    THEN LET first == CHOOSE i \in 1..Len(s) : s[i] = ":" /\ \A j \in 1..(i - 1) : s[j] # ":"
             rest == SubSeq(s, first + 1, Len(s))
             stops == {i \in 1..Len(rest) : rest[i] = ":"}
         IN IF stops = {} THEN rest
            ELSE SubSeq(rest, 1, (CHOOSE i \in stops : \A j \in stops : i <= j) - 1)
    ELSE s

\* the callback of activity.catches.map in normalizeTryCatch
ConvertCatch(c) ==
    IF Truthy(c.exceptionType) /\ Truthy(c.handler) THEN [c |-> c, converted |-> FALSE]
    ELSE IF c.type = "Catch" \/ Truthy(c.xTypeArguments) \/ Truthy(c.activityAction)
    THEN LET typeArg == OrElse(c.xTypeArguments, OrElse(c.typeArguments, Str(<<"s", ":", "Exception">>)))
             action == c.activityAction
             named == IF Truthy(action) /\ Truthy(Get(Get(action, "argument"), "name"))
                      THEN Get(Get(action, "argument"), "name")
                      ELSE Str(<<"ex">>)
             handler == IF Truthy(action)
                        THEN OrElse(Get(action, "handler"), OrElse(Get(action, "activity"), Null))
                        ELSE IF Truthy(c.handler) THEN c.handler ELSE Null
         IN [c |-> [Obj EXCEPT !.exceptionType = Str(StripPrefix(typeArg.s)),
                               !.variableName = OrElse(c.variableName, named),
                               !.handler = handler],
             converted |-> TRUE]
    ELSE IF Truthy(c.exceptionType)
    THEN [c |-> [Obj EXCEPT !.exceptionType = c.exceptionType,
                            !.variableName = OrElse(c.variableName, Str(<<"ex">>)),
                            !.handler = OrElse(c.handler, OrElse(c.body, Null))],
          converted |-> FALSE]
    ELSE [c |-> c, converted |-> FALSE]

normalizeTryCatch(activity, warnings) ==
    IF activity.catches.k # "arr" THEN [a |-> activity, w |-> warnings]
    ELSE LET old == activity.catches.items
             new == [i \in 1..Len(old) |-> ConvertCatch(old[i])]
             converted == {i \in 1..Len(old) : new[i].converted}
         IN [a |-> [activity EXCEPT !.catches = Arr([i \in 1..Len(old) |-> new[i].c])],
             w |-> warnings \o [i \in 1..Cardinality(converted) |->
                                   "Converted constructor-format catch to writer format"]]

normalizeForEach(activity, warnings) ==
    LET a1 == IF activity.values.k = "str"
              THEN [activity EXCEPT !.values = Str(ensureBrackets(activity.values.s))]
              ELSE activity
        ta == a1.typeArguments
        strip == Truthy(ta) /\ Len(ta.s) >= 2 /\ ta.s[1] = "x" /\ ta.s[2] = ":"
        a2 == IF strip THEN [a1 EXCEPT !.typeArguments = Str(SubSeq(ta.s, 3, Len(ta.s)))] ELSE a1
        a3 == IF ~Truthy(a2.body)
              THEN [a2 EXCEPT !.body = [Obj EXCEPT !.variableName = Str(<<"item">>),
                                                   !.variableType = OrElse(a2.typeArguments, Str(<<"String">>)),
                                                   !.activity = Null]]
              ELSE a2
    IN [a |-> a3,
        w |-> IF strip THEN Append(warnings, "Stripped x: prefix from ForEach typeArguments") ELSE warnings]

\* v !== undefined
Defined(v) == v.k # "undef"

CaseItem(key, activity) == [Obj EXCEPT !.key = key, !.activity = activity]

\* one iteration of the loop over an array of cases: the item pushed, if any
PushedCase(c) ==
    IF Defined(c.key) /\ Defined(c.activity)
    THEN [pushed |-> TRUE, item |-> CaseItem(StringOf(c.key), c.activity), conversion |-> FALSE]
    ELSE IF Defined(c.key) /\ Defined(c.value)
    THEN [pushed |-> TRUE, item |-> CaseItem(StringOf(c.key), c.value), conversion |-> TRUE]
    ELSE IF Defined(c.case) /\ Defined(c.activity)
    THEN [pushed |-> TRUE, item |-> CaseItem(StringOf(c.case), c.activity), conversion |-> TRUE]
    ELSE [pushed |-> FALSE, item |-> c, conversion |-> FALSE]

\* normalizeSwitch without the object-format branch
normalizeSwitchArraysOnly(activity, warnings) ==
    IF activity.cases.k = "arr"
    THEN LET each == [i \in 1..Len(activity.cases.items) |-> PushedCase(activity.cases.items[i])]
             IsPushed(e) == e.pushed
             pushed == SelectSeq(each, IsPushed)
             normalized == [i \in 1..Len(pushed) |-> pushed[i].item]
             needsConversion == \E i \in 1..Len(each) : each[i].conversion
         IN IF needsConversion
            THEN [a |-> [activity EXCEPT !.cases = Arr(normalized)],
                  w |-> Append(warnings, "Converted Switch cases from array to writer format")]
            ELSE [a |-> activity, w |-> warnings]
    ELSE [a |-> activity, w |-> warnings]

normalizeSwitch(activity, warnings) ==
    IF activity.cases.k = "arr"
    THEN LET each == [i \in 1..Len(activity.cases.items) |-> PushedCase(activity.cases.items[i])]
             IsPushed(e) == e.pushed
             pushed == SelectSeq(each, IsPushed)
             normalized == [i \in 1..Len(pushed) |-> pushed[i].item]
             needsConversion == \E i \in 1..Len(each) : each[i].conversion
         IN IF needsConversion
            THEN [a |-> [activity EXCEPT !.cases = Arr(normalized)],
                  w |-> Append(warnings, "Converted Switch cases from array to writer format")]
            ELSE [a |-> activity, w |-> warnings]
    ELSE IF activity.cases.k = "dict"
    THEN LET entries == activity.cases.entries
         IN [a |-> [activity EXCEPT !.cases =
                        Arr([i \in 1..Len(entries) |-> CaseItem(entries[i].key, entries[i].value)])],
             w |-> Append(warnings, "Converted Switch cases from object to writer format")]
    ELSE [a |-> activity, w |-> warnings]

\* the expressionFields table
ExpressionField(type) ==
    CASE type \in {"If", "While", "DoWhile"} -> "condition"
      [] type = "Switch" -> "expression"
      [] type = "LogMessage" -> "message"
      [] OTHER -> ""

normalizeExpressionFields(activity, type, warnings) ==
    LET field == ExpressionField(type)
    IN IF field = "" THEN [a |-> activity, w |-> warnings]
       ELSE IF activity[field].k = "str" /\ activity[field].s # <<>>
       THEN LET original == activity[field].s
            IN [a |-> [activity EXCEPT ![field] = Str(ensureBrackets(original))],
                w |-> IF ensureBrackets(original) # original
                      THEN Append(warnings, "Added brackets")
                      ELSE warnings]
       ELSE [a |-> activity, w |-> warnings]

\* the switch (type) of normalizeActivity; s is the activity and the
\* warnings so far
NormalizeByType(s, type) ==
    CASE type = "Assign" -> normalizeAssign(s.a, s.w)
      [] type = "TryCatch" -> normalizeTryCatch(s.a, s.w)
      [] type = "ForEach" -> normalizeForEach(s.a, s.w)
      [] type = "Switch" -> normalizeSwitch(s.a, s.w)
      [] OTHER -> s

ExpressionFields(s, type) == normalizeExpressionFields(s.a, type, s.w)

\* activity.activities && !activity.children
RenameActivities(activity, warnings) ==
    IF Truthy(activity.activities) /\ ~Truthy(activity.children)
    THEN [a |-> [activity EXCEPT !.children = activity.activities, !.activities = Undef],
          w |-> Append(warnings, "Renamed activities to children")]
    ELSE [a |-> activity, w |-> warnings]

\* normalizeActivity before its recursions: the rename, the switch (type)
\* and the expression fields, with the warnings they push
NormalizeSelf(activity) ==
    ExpressionFields(NormalizeByType(RenameActivities(activity, <<>>), activity.type),
                     activity.type)

\* typeof x === "object" and not null, the test on activity itself
IsActivity(activity) == Truthy(activity) /\ activity.k = "obj"

\* the nested activities of an activity, each with the test that guards its
\* recursion, in the order normalizeActivity visits them
HasBodyActivity(a) == Truthy(a.body) /\ IsObject(a.body) /\ Truthy(Get(a.body, "activity"))

BodyIsActivity(a) ==
    Truthy(a.body) /\ IsObject(a.body) /\ TypeOf(a.body) # "" /\ ~Truthy(Get(a.body, "activity"))

HasDefault(a) == Truthy(a.default) /\ IsObject(a.default) /\ TypeOf(a.default) # ""

RECURSIVE normalizeActivity(_)

\* if (x) x = normalizeActivity(x, warnings, ...)
IfTruthy(x) == IF Truthy(x) THEN normalizeActivity(x) ELSE x

\* for (const c of list) if (c.f) c.f = normalizeActivity(c.f, ...)
InEach(list, f) ==
    IF list.k = "arr"
    THEN Arr([i \in 1..Len(list.items) |->
                 IF Truthy(Get(list.items[i], f))
                 THEN [list.items[i] EXCEPT ![f] = normalizeActivity(list.items[i][f])]
                 ELSE list.items[i]])
    ELSE list

\* activity.children.map(child => normalizeActivity(child, ...))
Mapped(list) ==
    IF list.k = "arr"
    THEN Arr([i \in 1..Len(list.items) |-> normalizeActivity(list.items[i])])
    ELSE list

\* the recursions of normalizeActivity into the activity it has normalized
Recurse(a) ==
    [a EXCEPT !.children = Mapped(a.children),
              !.then = IfTruthy(a.then),
              !.else = IfTruthy(a.else),
              !.try = IfTruthy(a.try),
              !.finally = IfTruthy(a.finally),
              !.catches = InEach(a.catches, "handler"),
              !.body = IF HasBodyActivity(a)
                       THEN [a.body EXCEPT !.activity = normalizeActivity(a.body.activity)]
                       ELSE IF BodyIsActivity(a) THEN normalizeActivity(a.body)
                       ELSE a.body,
              !.cases = InEach(a.cases, "activity"),
              !.default = IF HasDefault(a) THEN normalizeActivity(a.default) ELSE a.default]

\* the activity normalizeActivity returns
normalizeActivity(activity) ==
    IF IsActivity(activity) THEN Recurse(NormalizeSelf(activity).a) ELSE activity

RECURSIVE Flattened(_)
Flattened(lists) == IF lists = <<>> THEN <<>> ELSE Head(lists) \o Flattened(Tail(lists))

RECURSIVE NormalizerWarnings(_)

WarningsIfTruthy(x) == IF Truthy(x) THEN NormalizerWarnings(x) ELSE <<>>

WarningsInEach(list, f) ==
    IF list.k = "arr"
    THEN Flattened([i \in 1..Len(list.items) |-> WarningsIfTruthy(Get(list.items[i], f))])
    ELSE <<>>

\* the warnings normalizeActivity pushes, in the order it pushes them
NormalizerWarnings(activity) ==
    IF IsActivity(activity)
    THEN LET a == NormalizeSelf(activity).a
         IN NormalizeSelf(activity).w
                \o (IF a.children.k = "arr"
                    THEN Flattened([i \in 1..Len(a.children.items) |->
                                       NormalizerWarnings(a.children.items[i])])
                    ELSE <<>>)
                \o WarningsIfTruthy(a.then)
                \o WarningsIfTruthy(a.else)
                \o WarningsIfTruthy(a.try)
                \o WarningsIfTruthy(a.finally)
                \o WarningsInEach(a.catches, "handler")
                \o (IF HasBodyActivity(a) THEN NormalizerWarnings(a.body.activity)
                    ELSE IF BodyIsActivity(a) THEN NormalizerWarnings(a.body)
                    ELSE <<>>)
                \o WarningsInEach(a.cases, "activity")
                \o (IF HasDefault(a) THEN NormalizerWarnings(a.default) ELSE <<>>)
    ELSE <<>>

DEFAULT_NAMESPACES ==
    <<"Microsoft.VisualBasic", "Microsoft.VisualBasic.Activities", "System",
      "System.Activities", "System.Activities.Expressions", "System.Activities.Statements",
      "System.Activities.Validation", "System.Activities.XamlIntegration",
      "System.Collections", "System.Collections.Generic", "System.Collections.ObjectModel",
      "System.Data", "System.Diagnostics", "System.Drawing", "System.IO", "System.Linq",
      "System.Net.Mail", "System.Windows", "System.Windows.Markup", "System.Xml",
      "System.Xml.Linq", "UiPath.Core", "UiPath.Core.Activities">>

DEFAULT_ASSEMBLY_REFERENCES ==
    <<"Microsoft.VisualBasic", "System", "System.Activities", "System.Core", "System.Data",
      "System.Drawing", "System.Linq", "System.Private.CoreLib", "System.Xml",
      "System.Xml.Linq", "UiPath.System.Activities", "mscorlib">>

Strings(names) == Arr([i \in 1..Len(names) |-> Str(<<names[i]>>)])

\* metadata: {} has every property missing
Meta == [k |-> "meta", class |-> Undef, namespaces |-> Undef,
         assemblyReferences |-> Undef, arguments |-> Undef]

\* an entry of metadata.arguments; direction <<>> when missing
Argument(name, type, direction) == [name |-> name, type |-> type, direction |-> direction]

\* !x || !Array.isArray(x) || x.length === 0
MissingList(x) == ~Truthy(x) \/ x.k # "arr" \/ x.items = <<>>

\* /^(In|Out|InOut)Argument\((.+)\)$/
Decomposable(type) ==
    /\ Len(type) >= 4
    /\ type[1] \in {"In", "Out", "InOut"}
    /\ type[2] = "Argument("
    /\ type[Len(type)] = ")"

DecomposeArgument(arg) ==
    IF arg.type # <<>> /\ arg.direction = <<>> /\ Decomposable(arg.type)
    THEN Argument(arg.name, SubSeq(arg.type, 3, Len(arg.type) - 1), <<arg.type[1]>>)
    ELSE arg

\* the workflow JSON: {metadata, variables, workflow}
Workflow(metadata, workflow) == [metadata |-> metadata, variables |-> Undef, workflow |-> workflow]

\* normalizeWorkflowJson: the normalized copy and the warnings
normalizeWorkflowJson(input) ==
    LET given == IF Truthy(input.metadata) THEN input.metadata ELSE Meta
        w1 == IF Truthy(input.metadata) THEN <<>> ELSE <<"Added missing metadata block">>
        w2 == IF MissingList(given.namespaces) THEN Append(w1, "Added default namespaces") ELSE w1
        w3 == IF MissingList(given.assemblyReferences)
              THEN Append(w2, "Added default assemblyReferences") ELSE w2
        arguments == IF Truthy(given.arguments) THEN given.arguments.items ELSE <<>>
        decomposed == [i \in 1..Len(arguments) |-> DecomposeArgument(arguments[i])]
        w4 == w3 \o [i \in 1..Cardinality({j \in 1..Len(arguments) : decomposed[j] # arguments[j]})
                       |-> "Decomposed argument type"]
        meta == [k |-> "meta",
                 class |-> IF Truthy(given.class) THEN given.class ELSE Str(<<>>),
                 namespaces |-> IF MissingList(given.namespaces)
                                THEN Strings(DEFAULT_NAMESPACES) ELSE given.namespaces,
                 assemblyReferences |-> IF MissingList(given.assemblyReferences)
                                        THEN Strings(DEFAULT_ASSEMBLY_REFERENCES)
                                        ELSE given.assemblyReferences,
                 arguments |-> Arr(decomposed)]
    IN [normalized |-> [metadata |-> meta,
                        variables |-> IF Truthy(input.variables) THEN input.variables ELSE Arr(<<>>),
                        workflow |-> IfTruthy(input.workflow)],
        warnings |-> w4 \o WarningsIfTruthy(input.workflow)]

(***************************************************************************)
(* The workflows given to the normalizer.                                  *)
(***************************************************************************)
MaxNesting == 2     \* containers around the innermost activity

Node(type) == [Obj EXCEPT !.type = type]

ToChoices == {Undef, Str(<<"c">>), Str(<<"[", "c", "]">>), TypedField("Int32", <<"[", "c", "]">>)}

ValueChoices ==
    {Undef, Num, Str(<<>>), Str(<<"c">>), Str(<<"4", "2">>), Str(<<"-", "4", ".", "2">>),
     Str(<<"True">>), Str(<<"\"", "c", "\"">>), TypedField("String", <<"[", "c", "]">>)}

Assign(to, value) == [Node("Assign") EXCEPT !.to = to, !.value = value]

Assigns == {Assign(to, value) : to \in ToChoices, value \in ValueChoices}

FlatAssign == Assign(Str(<<"c">>), Str(<<"c">>))

Innermost == {FlatAssign, Assign(Str(<<"c">>), Str(<<"4", "2">>)),
              [Node("LogMessage") EXCEPT !.message = Str(<<"c">>)]}

\* the containers that hold activity x, one for each place the normalizer
\* looks for a nested activity and each input shape it accepts there
Containers(x) ==
    { [Node("Sequence") EXCEPT !.children = Arr(<<x, FlatAssign>>)],
      [Node("Sequence") EXCEPT !.activities = Arr(<<x>>)],
      [Node("Sequence") EXCEPT !.activities = Arr(<<x>>), !.children = Arr(<<FlatAssign>>)],
      [Node("If") EXCEPT !.condition = Str(<<"c">>), !.then = x],
      [Node("If") EXCEPT !.condition = Str(<<"[", "c", "]">>), !.then = FlatAssign, !.else = x],
      [Node("TryCatch") EXCEPT !.try = x, !.finally = FlatAssign],
      [Node("TryCatch") EXCEPT !.try = FlatAssign, !.finally = x],
      [Node("TryCatch") EXCEPT !.catches =
          Arr(<<[Obj EXCEPT !.exceptionType = Str(<<"Exception">>), !.handler = x]>>)],
      [Node("TryCatch") EXCEPT !.catches =
          Arr(<<[Node("Catch") EXCEPT !.xTypeArguments = Str(<<"s", ":", "Exception">>),
                                      !.activityAction =
                                          [Obj EXCEPT !.argument = [Obj EXCEPT !.name = Str(<<"e">>)],
                                                      !.handler = x]]>>)],
      [Node("TryCatch") EXCEPT !.catches = Arr(<<[Node("Catch") EXCEPT !.handler = x]>>)],
      [Node("ForEach") EXCEPT !.values = Str(<<"c">>),
                              !.typeArguments = Str(<<"x", ":", "String">>),
                              !.body = [Obj EXCEPT !.variableName = Str(<<"item">>), !.activity = x]],
      [Node("ForEach") EXCEPT !.values = Str(<<"c">>), !.children = Arr(<<x>>)],
      [Node("While") EXCEPT !.condition = Str(<<"c">>), !.body = x],
      [Node("Switch") EXCEPT !.expression = Str(<<"c">>),
                             !.cases = Arr(<<CaseItem(Str(<<"a">>), x)>>)],
      [Node("Switch") EXCEPT !.cases = Arr(<<[Obj EXCEPT !.key = Str(<<"a">>), !.value = x]>>)],
      [Node("Switch") EXCEPT !.cases = Arr(<<[Obj EXCEPT !.case = Num, !.activity = x]>>)],
      [Node("Switch") EXCEPT !.cases =
          Arr(<<CaseItem(Num, FlatAssign), [Obj EXCEPT !.key = Str(<<"b">>), !.value = x]>>)],
      [Node("Switch") EXCEPT !.cases =
          Dict(<<[key |-> Str(<<"a">>), value |-> x], [key |-> Str(<<"b">>), value |-> FlatAssign]>>)],
      [Node("Switch") EXCEPT !.cases = Arr(<<>>), !.default = x] }

\* four of the containers, used for the outer levels of deeper nestings
Wrappers(x) ==
    { [Node("Sequence") EXCEPT !.activities = Arr(<<x>>)],
      [Node("If") EXCEPT !.condition = Str(<<"c">>), !.then = FlatAssign, !.else = x],
      [Node("While") EXCEPT !.condition = Str(<<"c">>), !.body = x],
      [Node("Switch") EXCEPT !.cases = Dict(<<[key |-> Str(<<"a">>), value |-> x]>>)] }

RECURSIVE Wrapped(_)
Wrapped(depth) ==
    IF depth = 0 THEN {FlatAssign}
    ELSE UNION {Wrappers(x) : x \in Wrapped(depth - 1)}

\* the activities with depth containers around an innermost one
RECURSIVE Nested(_)
Nested(depth) ==
    IF depth = 0 THEN Innermost
    ELSE IF depth = 1 THEN UNION {Containers(x) : x \in Innermost}
    ELSE UNION {Wrappers(x) : x \in Nested(depth - 1)}
             \cup UNION {Containers(x) : x \in Wrapped(depth - 1)}

Activities == Assigns \cup UNION {Nested(d) : d \in 1..MaxNesting}

Metadatas ==
    {Undef, Meta,
     [Meta EXCEPT !.class = Str(<<"Main">>), !.namespaces = Arr(<<>>),
                  !.assemblyReferences = Strings(<<"System">>)],
     [Meta EXCEPT !.namespaces = Strings(<<"System">>),
                  !.arguments = Arr(<<Argument("in_a", <<"In", "Argument(", "x:String", ")">>, <<>>),
                                      Argument("out_b", <<"x:String">>, <<"Out">>)>>)]}

WorkflowInputs ==
    {Workflow(Meta, a) : a \in Activities}
        \cup {Workflow(m, FlatAssign) : m \in Metadatas}
        \cup {Workflow(m, Undef) : m \in Metadatas}

(***************************************************************************)
(* One call of normalizeWorkflowJson.  The linter does not run.            *)
(***************************************************************************)
linterVars == <<pc, pathKind, strict, json, regArg, nsRegistry, files, idx, content,
                namespaces, result, results, ran, exitCode, output, errout>>

LinterIdle ==
    /\ pc = "Idle" /\ pathKind = "missing" /\ strict = FALSE /\ json = FALSE
    /\ regArg = "none" /\ nsRegistry = NoRegistry /\ files = <<>> /\ idx = 0
    /\ content = EmptyDoc /\ namespaces = <<>> /\ result = NoResult /\ results = <<>>
    /\ ran = <<>> /\ exitCode = Running /\ output = <<>> /\ errout = <<>>

\* input is the caller's object, given what it held when the call was made
InitNormalize ==
    /\ LinterIdle
    /\ tool \in {[phase |-> "called", given |-> i, input |-> i,
                  normalized |-> Undef, warnings |-> <<>>] : i \in WorkflowInputs}

\* structuredClone without the copy: the caller's object is the one normalized
NormalizeInPlace ==
    /\ tool.phase = "called"
    /\ LET r == normalizeWorkflowJson(tool.input)
       IN tool' = [tool EXCEPT !.phase = "normalized", !.input = r.normalized,
                               !.normalized = r.normalized, !.warnings = r.warnings]
    /\ UNCHANGED linterVars

\* the normalization works on structuredClone(input): every assignment of
\* normalizeWorkflowJson and normalizeActivity lands in the copy
NormalizeWorkflowJson ==
    /\ tool.phase = "called"
    /\ LET r == normalizeWorkflowJson(tool.input)
       IN tool' = [tool EXCEPT !.phase = "normalized",
                               !.normalized = r.normalized, !.warnings = r.warnings]
    /\ UNCHANGED linterVars

NextNormalize == NormalizeWorkflowJson

SpecNormalize == InitNormalize /\ [][NextNormalize]_vars

\* C26: after normalizeWorkflowJson every Assign reachable from the root
\* workflow through children (activities where there are no children), then,
\* else, try, finally, a catch's handler, body or body.activity, a Switch
\* case in each accepted shape and the Switch default holds no flat string in
\* to or value: each is a typed {type, value} object unless the input left it
\* out or gave a number; and the caller's input object still holds what it
\* was given.
IsTypedObject(f) == f.k = "obj" /\ f.type # "" /\ f.value.k = "str"

Items(v) == IF v.k = "arr" THEN Range(v.items) ELSE {}

\* the activities directly under activity a, along the places of the claim
Below(a) ==
    Items(IF Defined(a.children) THEN a.children ELSE a.activities)
        \cup {a.then, a.else, a.try, a.finally, a.body, Get(a.body, "activity")}
        \cup {Get(c, "handler") : c \in Items(a.catches)}
        \cup IF a.type = "Switch"
             THEN {IF Defined(Get(c, "activity")) THEN Get(c, "activity")
                   ELSE IF Defined(Get(c, "key")) THEN Get(c, "value") ELSE Undef :
                       c \in Items(a.cases)}
                    \cup (IF a.cases.k = "dict"
                          THEN {e.value : e \in Range(a.cases.entries)} ELSE {})
                    \cup {a.default}
             ELSE {}

RECURSIVE ReachableAssigns(_)
ReachableAssigns(a) ==
    IF a.k # "obj" THEN {}
    ELSE (IF a.type = "Assign" THEN {a} ELSE {})
             \cup UNION {ReachableAssigns(b) : b \in Below(a)}

AssignTyped(a) ==
    /\ IsTypedObject(a.to) \/ a.to.k \in {"undef", "num"}
    /\ IsTypedObject(a.value) \/ a.value.k \in {"undef", "num"}

Handlers == {"build_activity", "write_workflow", "create_workflow", "edit_workflow"}

Unparsable == [k |-> "unparsable"]      \* text that is not JSON

NoReturn == [success |-> "none", isError |-> FALSE, text |-> "none"]

Return(success, isError, text) == [success |-> success, isError |-> isError, text |-> text]

\* tmpPath / tmpEdits and tmpResult tell whether the variable holds a path;
\* temp is what is on disk at that path: "none", "exists", "deleted", or
\* "kept" after an unlink that failed; unlinked are the paths given to unlink
Call(handler, arg, validate) ==
    [handler |-> handler, arg |-> arg, validate |-> validate,
     at |-> IF handler \in {"create_workflow", "edit_workflow"} THEN "parse" ELSE "writeTemp",
     steps |-> <<>>, normalized |-> Undef, warnings |-> <<>>,
     tmpPath |-> FALSE, tmpResult |-> FALSE,
     temp |-> [json |-> "none", result |-> "none"], unlinked |-> {},
     writer |-> "none", validation |-> "null",
     decided |-> NoReturn, result |-> NoReturn]

CreateInputs ==
    {Unparsable, Null, Workflow(Undef, Undef), Workflow(Meta, FlatAssign)}
        \cup {Workflow(Meta, a) : a \in Containers(FlatAssign)}

EditInputs == {Unparsable, Dict(<<>>), Arr(<<>>), Arr(<<Obj>>)}

Calls ==
    {Call(h, Str(<<"c">>), FALSE) : h \in {"build_activity", "write_workflow"}}
        \cup {Call("create_workflow", i, FALSE) : i \in CreateInputs}
        \cup {Call("edit_workflow", i, v) : i \in EditInputs, v \in BOOLEAN}

InitHandlers ==
    /\ LinterIdle
    /\ tool \in Calls

\* the catch block of the handler, then on to the finally block
Catch(call) ==
    [call EXCEPT !.at = "finally",
                 !.decided = IF call.handler \in {"build_activity", "write_workflow"}
                             THEN Return("none", TRUE, "System error")
                             ELSE Return("false", TRUE, "error")]

\* a return statement inside the try block, then on to the finally block
Decide(call, value) == [call EXCEPT !.at = "finally", !.decided = value]

Started(call, step) ==
    IF call.handler = "create_workflow" THEN [call EXCEPT !.steps = Append(@, step)] ELSE call

\* create_workflow, step 1: tryParseJson
TryParseJson ==
    /\ tool.handler = "create_workflow" /\ tool.at = "parse"
    /\ tool' = IF tool.arg = Unparsable
               THEN Catch(Started(tool, "parse"))
               ELSE [Started(tool, "parse") EXCEPT !.at = "normalize"]
    /\ UNCHANGED linterVars

\* create_workflow, step 2: normalizeWorkflowJson; null has no metadata to
\* read, which throws
NormalizeStep ==
    /\ tool.handler = "create_workflow" /\ tool.at = "normalize"
    /\ tool' = IF tool.arg = Null
               THEN Catch(Started(tool, "normalize"))
               ELSE LET r == normalizeWorkflowJson(tool.arg)
                    IN [Started(tool, "normalize") EXCEPT !.at = "writeTemp",
                                                          !.normalized = r.normalized,
                                                          !.warnings = r.warnings]
    /\ UNCHANGED linterVars

\* edit_workflow, step 1: JSON.parse and the two checks of the array
ParseEdits ==
    /\ tool.handler = "edit_workflow" /\ tool.at = "parse"
    /\ tool' = IF tool.arg.k = "arr" /\ tool.arg.items # <<>>
               THEN [tool EXCEPT !.at = "writeTemp"]
               ELSE Catch(tool)
    /\ UNCHANGED linterVars

\* writeTempJson returns the path of the file it wrote; edit_workflow derives
\* the path of the result file from it
WriteTempJson ==
    /\ tool.at = "writeTemp"
    /\ tool' = [tool EXCEPT !.at = "python", !.tmpPath = TRUE, !.temp.json = "exists",
                            !.tmpResult = (tool.handler = "edit_workflow")]
    /\ UNCHANGED linterVars

\* mkdtemp or writeFile fails: no path is returned
WriteTempJsonThrows ==
    /\ tool.at = "writeTemp"
    /\ tool' = Catch(tool)
    /\ UNCHANGED linterVars

\* the editor writes its result file, or fails before it does
ResultFile(call, written) ==
    IF call.handler = "edit_workflow" /\ written
    THEN [call EXCEPT !.temp.result = "exists"]
    ELSE call

\* runPython resolves with exit code 0
PythonExitsZero ==
    /\ tool.at = "python"
    /\ \E written \in BOOLEAN :
          LET exited == [ResultFile(Started(tool, "write"), written) EXCEPT !.writer = "exit0"]
          IN tool' = CASE tool.handler = "build_activity" -> Decide(exited, Return("none", FALSE, "stdout"))
                       [] tool.handler = "edit_workflow" -> [exited EXCEPT !.at = "read"]
                       [] OTHER -> [exited EXCEPT !.at = "xmlns"]
    /\ UNCHANGED linterVars

\* runPython resolves with exit code 1: the handler returns at once
PythonExitsNonZero ==
    /\ tool.at = "python"
    /\ \E written \in BOOLEAN :
          LET exited == [ResultFile(Started(tool, "write"), written) EXCEPT !.writer = "exit1"]
          IN tool' = CASE tool.handler = "build_activity" ->
                              Decide(exited, Return("none", FALSE, "stderr || stdout"))
                       [] tool.handler = "write_workflow" ->
                              Decide(exited, Return("none", TRUE, "Error writing workflow"))
                       [] tool.handler = "create_workflow" ->
                              Decide(exited, Return("false", TRUE, "XAML write failed"))
                       [] OTHER -> Decide(exited, Return("false", TRUE, "XAML edit failed"))
    /\ UNCHANGED linterVars

\* runPython rejects
PythonRejects ==
    /\ tool.at = "python"
    /\ tool' = Catch([Started(tool, "write") EXCEPT !.writer = "rejected"])
    /\ UNCHANGED linterVars

\* write_workflow and create_workflow: fixDuplicateXmlns on the output file
FixDuplicateXmlns ==
    /\ tool.at = "xmlns"
    /\ tool' = IF tool.handler = "write_workflow"
               THEN Decide(tool, Return("none", FALSE, "stdout || written"))
               ELSE [Started(tool, "xmlns") EXCEPT !.at = "lint"]
    /\ UNCHANGED linterVars

FixDuplicateXmlnsThrows ==
    /\ tool.at = "xmlns"
    /\ tool' = Catch(Started(tool, "xmlns"))
    /\ UNCHANGED linterVars

\* unlink of a path: only a file that exists can be deleted, and even that
\* can fail
Unlink(state, ok) == IF state = "exists" THEN (IF ok THEN "deleted" ELSE "kept") ELSE state

\* edit_workflow, step 4: readAndCleanup reads the result file, unlinks it
\* and swallows an unlink error; then the result is parsed and looked at
ReadAndCleanup ==
    /\ tool.handler = "edit_workflow" /\ tool.at = "read" /\ tool.temp.result = "exists"
    /\ \E ok \in BOOLEAN, editor \in {"success", "failure", "unparsable"} :
          LET done == [tool EXCEPT !.temp.result = Unlink(@, ok),
                                   !.unlinked = @ \cup {"result"},
                                   !.tmpResult = FALSE]
          IN tool' = IF editor # "success" THEN Decide(done, Return("false", TRUE, "editor result"))
                     ELSE IF tool.validate THEN [done EXCEPT !.at = "lint"]
                     ELSE Decide(done, Return("true", FALSE, "changes"))
    /\ UNCHANGED linterVars

\* readFile throws: readAndCleanup does not reach its unlink
ReadResultThrows ==
    /\ tool.handler = "edit_workflow" /\ tool.at = "read" /\ tool.temp.result # "exists"
    /\ tool' = Catch(tool)
    /\ UNCHANGED linterVars

\* the inner catch rethrowing: a linter that cannot be run fails the call
LintRejectsFailsCall ==
    /\ tool.at = "lint"
    /\ tool' = Catch(Started(tool, "lint"))
    /\ UNCHANGED linterVars

\* the inner catch of the validation step: runPowerShell rejected
LintRejects ==
    /\ tool.at = "lint"
    /\ tool' = Decide([Started(tool, "lint") EXCEPT !.validation = "skipped"],
                      Return("true", FALSE, "validation"))
    /\ UNCHANGED linterVars

\* runPowerShell resolves whatever the linter's exit code:
\* validation = stdout || stderr
LintResolves ==
    /\ tool.at = "lint"
    /\ \E out \in {"stdout", "stderr", ""} :
          tool' = Decide([Started(tool, "lint") EXCEPT !.validation = out],
                         Return("true", FALSE, "validation"))
    /\ UNCHANGED linterVars

\* cleanupTemp without its catch: a failed unlink rejects the handler
CleanupTempThrows ==
    /\ tool.at = "finally"
    /\ \E okJson \in BOOLEAN, okResult \in BOOLEAN :
          LET failed == \/ tool.tmpPath /\ Unlink(tool.temp.json, okJson) # "deleted"
                        \/ tool.tmpResult /\ Unlink(tool.temp.result, okResult) # "deleted"
          IN tool' = [tool EXCEPT
                 !.at = "returned",
                 !.temp.json = IF tool.tmpPath THEN Unlink(@, okJson) ELSE @,
                 !.temp.result = IF tool.tmpResult THEN Unlink(@, okResult) ELSE @,
                 !.unlinked = @ \cup (IF tool.tmpPath THEN {"json"} ELSE {})
                                \cup (IF tool.tmpResult THEN {"result"} ELSE {}),
                 !.result = IF failed THEN Return("none", TRUE, "rejected") ELSE tool.decided]
    /\ UNCHANGED linterVars

\* the finally block: cleanupTemp of each path that is set, unlink errors
\* swallowed; then the handler's promise resolves with the value decided
CleanupTemp ==
    /\ tool.at = "finally"
    /\ \E okJson \in BOOLEAN, okResult \in BOOLEAN :
          tool' = [tool EXCEPT
              !.at = "returned",
              !.temp.json = IF tool.tmpPath THEN Unlink(@, okJson) ELSE @,
              !.temp.result = IF tool.tmpResult THEN Unlink(@, okResult) ELSE @,
              !.unlinked = @ \cup (IF tool.tmpPath THEN {"json"} ELSE {})
                             \cup (IF tool.tmpResult THEN {"result"} ELSE {}),
              !.result = tool.decided]
    /\ UNCHANGED linterVars

NextHandlers ==
    \/ TryParseJson
    \/ NormalizeStep
    \/ ParseEdits
    \/ WriteTempJson
    \/ WriteTempJsonThrows
    \/ PythonExitsZero
    \/ PythonExitsNonZero
    \/ PythonRejects
    \/ FixDuplicateXmlns
    \/ FixDuplicateXmlnsThrows
    \/ ReadAndCleanup
    \/ ReadResultThrows
    \/ LintRejects
    \/ LintResolves
    \/ CleanupTemp

SpecHandlers == InitHandlers /\ [][NextHandlers]_vars

CreateSteps == <<"parse", "normalize", "write", "xmlns", "lint">>

\* C27: create_workflow starts its steps in the order parse, normalize,
\* write, xmlns fix, lint, none skipped: the writer is started only with the
\* normalized form of JSON that parsed, the xmlns fix and the linter only
\* after the writer exited 0, and a call that reached the linter returns
\* success = true whatever the linter did.
C27_CreateWorkflowOrder ==
    tool.handler = "create_workflow"
        => /\ IsPrefixOf(tool.steps, CreateSteps)
           /\ "write" \in Range(tool.steps)
                 => /\ tool.arg \notin {Unparsable, Null}
                    /\ tool.normalized = normalizeWorkflowJson(tool.arg).normalized
           /\ "xmlns" \in Range(tool.steps) => tool.writer = "exit0"
           /\ "lint" \in Range(tool.steps) => tool.writer = "exit0"
           /\ tool.at = "returned" /\ "lint" \in Range(tool.steps)
                 => tool.result.success = "true" /\ ~tool.result.isError

\* the linter could not be run and the call still succeeded
C27_Witness ==
    /\ tool.handler = "create_workflow" /\ tool.at = "returned"
    /\ tool.steps = CreateSteps
    /\ tool.validation = "skipped"
    /\ tool.result = Return("true", FALSE, "validation")

C30_WitnessNonZeroExit ==
    /\ tool.handler = "edit_workflow" /\ tool.at = "returned"
    /\ tool.writer = "exit1"
    /\ tool.temp = [json |-> "deleted", result |-> "deleted"]

\* runPython rejected in build_activity: the input file was still unlinked
C30_WitnessThrown ==
    /\ tool.handler = "build_activity" /\ tool.at = "returned"
    /\ tool.writer = "rejected"
    /\ tool.temp.json = "deleted"
    /\ tool.result.isError

\* the nineteen keys of the compliance map
ComplianceKeyNames ==
    {"Layer1-XML", "HR-0", "HR-2", "HR-Namespace-Usage", "HR-3", "HR-4", "HR-5", "HR-503",
     "HR-6", "HR-Double-Encoding", "HR-7", "HR-9", "HR-701", "Secrets", "TypeSystem",
     "ExpressionLang", "FlowchartStructure", "ActivitySpecific", "Namespace-Common-Types"}

\* rule ids that issues carry and the compliance map never has as a key
IssueOnlyRules == {"Standards-Naming", "Standards-Logging", "Namespace-Registry"}

\* the result of the current file is returned and its text passed the parse
WellFormedReturned ==
    ResultReturned /\ CurrentFile.state = "ok" /\ CurrentFile.doc.wellFormed

\* C28: the result returned for a document that passes the well-formedness
\* parse has exactly the nineteen compliance keys, whatever the document
\* holds, each with the value PASS, FAIL, WARN or N/A; Standards-Naming,
\* Standards-Logging and Namespace-Registry are never keys of a compliance
\* map, not even while the rules run.
C28_ComplianceKeys ==
    /\ WellFormedReturned
          => /\ ComplianceKeys(result) = ComplianceKeyNames
             /\ Len(result.HRCompliance) = 19
             /\ \A key \in ComplianceKeyNames :
                    ComplianceOf(result, key) \in {"PASS", "FAIL", "WARN", "N/A"}
    /\ ComplianceKeys(result) \cap IssueOnlyRules = {}

\* a returned result with issues of Standards-Naming and Standards-Logging
\* and a compliance map of nineteen keys, one of them N/A
C28_Witness ==
    /\ WellFormedReturned
    /\ IssuesOfRule(result, "Standards-Naming") # {}
    /\ IssuesOfRule(result, "Standards-Logging") # {}
    /\ "N/A" \in {ComplianceOf(result, key) : key \in ComplianceKeyNames}
    /\ Len(result.HRCompliance) = 19

\* every rule id: the compliance keys, the issue-only ids and whatever id an
\* issue of the result carries
RuleIds(res) ==
    ComplianceKeyNames \cup IssueOnlyRules \cup {res.Issues[i].Rule : i \in 1..Len(res.Issues)}

HasErrorOf(res, rule) == \E i \in IssuesOfRule(res, rule) : res.Issues[i].Severity = "ERROR"

\* the result of the current file is returned and the file was read
ReadReturned == ResultReturned /\ CurrentFile.state = "ok"

\* C29: in the result returned for a file that was read, well-formed or not,
\* the compliance entry of a rule id is FAIL exactly when the issues hold an
\* ERROR of that rule id, and IsValid is false exactly when some compliance
\* entry is FAIL.
C29_FailMeansError ==
    ReadReturned
        => /\ \A rule \in RuleIds(result) :
                  ComplianceOf(result, rule) = "FAIL" <=> HasErrorOf(result, rule)
           /\ ~result.IsValid <=> \E key \in ComplianceKeys(result) : ComplianceOf(result, key) = "FAIL"

\* a well-formed document with an ERROR: its rule is FAIL, the result invalid
C29_Witness ==
    /\ ReadReturned /\ CurrentFile.doc.wellFormed
    /\ \E rule \in ComplianceKeyNames \ {"Layer1-XML"} :
          HasErrorOf(result, rule) /\ ComplianceOf(result, rule) = "FAIL"
    /\ ~result.IsValid

\* a document that fails the parse: Layer1-XML is FAIL, the only entry
C29_WitnessMalformed ==
    /\ ReadReturned /\ ~CurrentFile.doc.wellFormed
    /\ result.HRCompliance = <<(<<"Layer1-XML", "FAIL">>)>>
    /\ HasErrorOf(result, "Layer1-XML")
    /\ ~result.IsValid

====
